---- MODULE Spec2Model ----
(***************************************************************************)
(* A model of scripts/js/src/sync_to_webflow.ts: the synchronisation of    *)
(* the maps, tags and terrains collections of the destination (Webflow)    *)
(* with the canonical records built from the source map list.              *)
(*                                                                         *)
(* Strings are sequences of one-character strings, so that toLowerCase,    *)
(* toUpperCase, slugFromName and template literals are computed character  *)
(* by character.  An optional value (lastPublished?) is a sequence of      *)
(* length at most one.  A JavaScript Map is a sequence of [k, v] entries   *)
(* in insertion order.                                                     *)
(***************************************************************************)
EXTENDS Integers, Sequences, FiniteSets, Bags, TLC

VARIABLES
    dryRun,      \* the --dry-run flag of the sync command
    maps,        \* the source map list, in Object.entries order
    cdnInfo,     \* readMapCDNInfos(): Map<springName, MapCDNInfo>
    mapsMetadata,  \* fetchMapsMetadata(maps): Map<rowyId, metadata>
    remote,      \* the destination: [maps, tags, terrains], each a listing of items
    nextId,      \* the destination's next fresh item identifier
    clock,       \* the destination's clock (Date.parse of its timestamps)
    dest,        \* webflowMaps / webflowMapTags / webflowMapTerrains
    rowyMapsInfo,     \* Map<rowyId, WebsiteMapInfo>
    rowyTagsInfo,     \* rowyMapTagsInfo: Map<slug, WebsiteMapTag>
    rowyTerrainsInfo, \* rowyMapTerrainsInfo: Map<slug, WebsiteMapTerrain>
    pc,          \* position of syncCommand in syncCommandSteps
    cur,         \* loop cursor of the running step (index or offset)
    items,       \* getAllWebflowItems: the items gathered so far
    updatesP,    \* syncMapsToWebflow: the pending equality checks
    queue,       \* the limiter's queue of scheduled calls
    inflight,    \* the calls being executed by the destination
    waiting,     \* TRUE while syncCommand awaits a destination call
    log,         \* every destination call of this run, in the order issued
    runNo,       \* 1 for the first run, 2 for a run repeated after it
    imageHashesCache,  \* ImageHashesCache.imageHashesCache: url -> digest
    newHashes,   \* ImageHashesCache.newHashes: digests stored since the last save
    cacheFile,   \* the cache file on disk: <<>> or <<[json, version, entries]>>
    pLimit,      \* ImageHashesCache.limit: the downloads queued and in progress
    pure,        \* a helper function applied on its own: its arguments and result
    env,         \* process.env: which of the two variables are set
    raised       \* the destination call that raised an error, if one did

vars == <<dryRun, maps, cdnInfo, mapsMetadata, remote, nextId, clock, dest, rowyMapsInfo, rowyTagsInfo,
          rowyTerrainsInfo, pc, cur, items, updatesP, queue, inflight, waiting,
          log, runNo, imageHashesCache, newHashes, cacheFile, pLimit, pure, env, raised>>

(***************************************************************************)
(* Strings                                                                 *)
(***************************************************************************)
LowerAlpha == <<"a","b","c","d","e","f","g","h","i","j","k","l","m",
                "n","o","p","q","r","s","t","u","v","w","x","y","z">>
UpperAlpha == <<"A","B","C","D","E","F","G","H","I","J","K","L","M",
                "N","O","P","Q","R","S","T","U","V","W","X","Y","Z">>
DigitChars == <<"0","1","2","3","4","5","6","7","8","9">>

Range(s) == {s[i] : i \in DOMAIN s}

toLowerCaseChar(c) ==
    IF \E i \in DOMAIN UpperAlpha : UpperAlpha[i] = c
    THEN LowerAlpha[CHOOSE i \in DOMAIN UpperAlpha : UpperAlpha[i] = c]
    ELSE c

toUpperCaseChar(c) ==
    IF \E i \in DOMAIN LowerAlpha : LowerAlpha[i] = c
    THEN UpperAlpha[CHOOSE i \in DOMAIN LowerAlpha : LowerAlpha[i] = c]
    ELSE c

toLowerCase(s) == [i \in 1..Len(s) |-> toLowerCaseChar(s[i])]
toUpperCase(s) == [i \in 1..Len(s) |-> toUpperCaseChar(s[i])]

slugFromNameUnfiltered(name) ==
    LET lower == toLowerCase(name)
    IN  [i \in 1..Len(lower) |->
            IF lower[i] \in {".", " ", "_"} THEN "-" ELSE lower[i]]

\* every run of '-' made into one '-', none left at either end
slugFromNameCollapsed(name) ==
    LET lower  == toLowerCase(name)
        dashed == [i \in 1..Len(lower) |->
                      IF lower[i] \in {".", " ", "_"} THEN "-" ELSE lower[i]]
        Kept(c) == c \in Range(LowerAlpha) \cup Range(DigitChars) \cup {"-"}
        kept   == SelectSeq(dashed, Kept)
        Stays(i) == kept[i] # "-"
                    \/ /\ i > 1 /\ kept[i - 1] # "-"
                       /\ \E j \in (i + 1)..Len(kept) : kept[j] # "-"
        at     == SelectSeq([i \in DOMAIN kept |-> i], Stays)
    IN  [k \in DOMAIN at |-> kept[at[k]]]

\* name.toLowerCase().replace(/[. _]/g, '-').replace(/[^a-z0-9-]/g, '')
slugFromName(name) ==
    LET lower  == toLowerCase(name)
        dashed == [i \in 1..Len(lower) |->
                      IF lower[i] \in {".", " ", "_"} THEN "-" ELSE lower[i]]
        Kept(c) == c \in Range(LowerAlpha) \cup Range(DigitChars) \cup {"-"}
    IN  SelectSeq(dashed, Kept)

\* `${n}` for a non-negative integer n
RECURSIVE numberToString(_)
numberToString(n) ==
    IF n < 10 THEN <<DigitChars[n + 1]>>
    ELSE numberToString(n \div 10) \o <<DigitChars[(n % 10) + 1]>>

(***************************************************************************)
(* JavaScript Map, in insertion order                                      *)
(***************************************************************************)
MapHas(m, k) == \E i \in DOMAIN m : m[i].k = k
MapIndex(m, k) == CHOOSE i \in DOMAIN m : m[i].k = k
MapGet(m, k) == m[MapIndex(m, k)].v
MapSet(m, k, v) ==
    IF MapHas(m, k) THEN [m EXCEPT ![MapIndex(m, k)] = [k |-> k, v |-> v]]
    ELSE Append(m, [k |-> k, v |-> v])
MapDelete(m, k) ==
    LET NotK(e) == e.k # k IN SelectSeq(m, NotK)
MapKeys(m) == {m[i].k : i \in DOMAIN m}

\* new Map(entries): later entries overwrite earlier ones with the same key
MapFromEntries(es) ==
    LET First(i) == \A j \in 1..(i - 1) : es[j].k # es[i].k
        Last(i) == \A j \in (i + 1)..Len(es) : es[j].k # es[i].k
        kept == SelectSeq([i \in DOMAIN es |-> i], First)
    IN  [n \in DOMAIN kept |->
            [k |-> es[kept[n]].k,
             v |-> es[CHOOSE i \in DOMAIN es : es[i].k = es[kept[n]].k /\ Last(i)].v]]

(***************************************************************************)
(* Image digests (getImageHash).  A URL is <<host>> \o content: what       *)
(* follows the host names the bytes the URL serves, '' is <<>>.  The digest of a    *)
(* resource is a function of its bytes alone; getImageHash answers from    *)
(* the cache when the URL is in it.                                        *)
(***************************************************************************)
digest(url) == <<"sha256">> \o Tail(url)

getImageHash(url) ==
    IF url = <<>> THEN <<>>
    ELSE IF url \in DOMAIN imageHashesCache THEN imageHashesCache[url]
    ELSE digest(url)

\* The cache object: the digests, the counter, and the file it saves to.
\* The digests are read and written by key alone (has, get, set): a function
\* from URL to digest.
emptyCache == [u \in {} |-> <<>>]
flushAfter == 30
concurrency == 20
imageHashesCacheVersion == 1

CacheState == [cache |-> imageHashesCache, newHashes |-> newHashes, file |-> cacheFile]

\* the pool of p-limit: nothing queued, nothing in progress
idleLimit == [queue |-> <<>>, active |-> EmptyBag]

\* saveImageHashesCacheSync: the file as written, or as it was when writing
\* fails (the error is caught and logged)
savedFiles(st) ==
    {<<[json |-> TRUE, version |-> imageHashesCacheVersion, entries |-> st.cache]>>,
     st.file}

\* the file of a process that found these entries when it started
savedFile(cache) ==
    IF DOMAIN cache = {} THEN <<>>
    ELSE <<[json |-> TRUE, version |-> imageHashesCacheVersion, entries |-> cache]>>

\* readFileSync or JSON.parse throws: there is no file, or its text is not
\* JSON
loadThrows(file) == file = <<>> \/ ~file[1].json

\* a constructor that takes the entries of a file of any version
loadedCacheAnyVersion(file) ==
    IF ~loadThrows(file) THEN file[1].entries ELSE emptyCache

\* the constructor reads the file when it is there and of this version
loadedCache(file) ==
    IF ~loadThrows(file) /\ file[1].version = imageHashesCacheVersion
    THEN file[1].entries ELSE emptyCache

\* new ImageHashesCache(cachePath): the entries it starts with, whether it
\* logged a warning, whether it threw
constructed(file) ==
    [cache |-> loadedCache(file), warned |-> loadThrows(file), throws |-> FALSE]

\* saveImageHashesCacheSync(), writeFileSync succeeding or throwing
saveImageHashesCacheSync(st, written) ==
    [file   |-> IF written
                THEN <<[json |-> TRUE, version |-> imageHashesCacheVersion,
                        entries |-> st.cache]>>
                ELSE st.file,
     warned |-> ~written,
     throws |-> FALSE]

\* getImageHash after its download: the digest is stored, the counter is
\* incremented, and past flushAfter the cache is saved and the counter reset
digestStored(st, url) ==
    LET c == [u \in DOMAIN st.cache \cup {url} |->
                 IF u = url THEN digest(url) ELSE st.cache[u]]
    IN  IF st.newHashes + 1 > flushAfter
        THEN {[cache |-> c, newHashes |-> 0, file |-> f] :
                  f \in savedFiles([st EXCEPT !.cache = c])}
        ELSE {[cache |-> c, newHashes |-> st.newHashes + 1, file |-> st.file]}

RECURSIVE digestsStored(_, _)
digestsStored(sts, urls) ==
    IF urls = <<>> THEN sts
    ELSE digestsStored(UNION {digestStored(st, Head(urls)) : st \in sts}, Tail(urls))

\* Of the calls getImageHash(urls[i]) made together, those that download:
\* each looks the URL up when it is called, before any download has ended.
missedIgnoringCache(cache, urls) ==
    LET Downloads(u) == u # <<>>
    IN  SelectSeq(urls, Downloads)
missed(cache, urls) ==
    LET Downloads(u) == u # <<>> /\ u \notin DOMAIN cache
    IN  SelectSeq(urls, Downloads)

\* The states the cache object can be in once these downloads have ended,
\* in whatever order they end.  The order makes a difference only when the
\* cache is saved on the way.
hashedStates(st, misses) ==
    IF st.newHashes + Len(misses) <= flushAfter
    THEN digestsStored({st}, misses)
    ELSE UNION {digestsStored({st}, [i \in DOMAIN misses |-> misses[p[i]]]) :
                    p \in Permutations(DOMAIN misses)}

\* the calls getImageHash(urls[i]), made together, have all returned
Hashed(urls) ==
    \E st \in hashedStates(CacheState, missed(imageHashesCache, urls)) :
        /\ imageHashesCache' = st.cache
        /\ newHashes' = st.newHashes
        /\ cacheFile' = st.file

sameImage(url1, url2) == getImageHash(url1) = getImageHash(url2)

\* pickImage(url, base?): base is a sequence of at most one WebflowImageRef
pickImageUrlAlways(url, base) == url
pickImage(url, base) ==
    IF base # <<>> /\ sameImage(url, base[1].url) THEN base[1].fileId ELSE url

\* h.sort() compares the digests as strings: '' first, then by their text
DigestTexts == << <<"p1">>, <<"p2">>, <<"p3">> >>
digestRank(h) ==
    IF h = <<>> THEN 0 ELSE CHOOSE r \in DOMAIN DigestTexts : DigestTexts[r] = Tail(h)

\* the sorted array: its k-th element has k-1 elements before it in the order,
\* equal elements in their original order
sort(hs) ==
    LET Before(i, j) == \/ digestRank(hs[i]) < digestRank(hs[j])
                        \/ digestRank(hs[i]) = digestRank(hs[j]) /\ i < j
        Place(i) == 1 + Cardinality({j \in DOMAIN hs : Before(j, i)})
    IN  [k \in DOMAIN hs |-> hs[CHOOSE i \in DOMAIN hs : Place(i) = k]]

sameImagesUnsorted(urls1, urls2) ==
    /\ Len(urls1) = Len(urls2)
    /\ \A i \in DOMAIN urls1 : getImageHash(urls1[i]) = getImageHash(urls2[i])

sameImages(urls1, urls2) ==
    LET h1 == sort([i \in DOMAIN urls1 |-> getImageHash(urls1[i])])
        h2 == sort([i \in DOMAIN urls2 |-> getImageHash(urls2[i])])
    IN  /\ Len(urls1) = Len(urls2)
        /\ \A i \in DOMAIN h1 : h1[i] = h2[i]

pickImagesByPosition(urls, base) ==
    [i \in DOMAIN urls |->
        IF i \in DOMAIN base /\ sameImage(urls[i], base[i].url)
        THEN base[i].fileId ELSE urls[i]]

\* pickImages(urls, base?): an absent base is the empty list (base || [])
pickImages(urls, base) ==
    LET hBase == MapFromEntries([i \in DOMAIN base |->
                     [k |-> getImageHash(base[i].url), v |-> base[i].fileId]])
        BaseFileId(hash) == IF MapHas(hBase, hash) THEN MapGet(hBase, hash) ELSE <<>>
    IN  [i \in DOMAIN urls |->
            IF BaseFileId(getImageHash(urls[i])) # <<>>
            THEN BaseFileId(getImageHash(urls[i]))
            ELSE urls[i]]

isSameRefsUnordered(a, b) == Range(a) = Range(b)
isSameRefs(a, b) == Len(a) = Len(b) /\ \A i \in DOMAIN a : a[i] = b[i]

(***************************************************************************)
(* Records                                                                 *)
(***************************************************************************)
\* new WebflowMapTag(item) / new WebflowMapTerrain(item)
WebflowMapTag(item) ==
    [name |-> item.fieldData.name, slug |-> item.fieldData.slug, item |-> item]

\* WebflowMapTag.generateFields / WebflowMapTerrain.generateFields
generateTagFields(tag) == [name |-> tag.name, slug |-> tag.slug]

isWebsiteMapTagEqual(a, b) == a.name = b.name /\ a.slug = b.slug

\* A scalar of the program: undefined, null, a string or a number.
undefined == [type |-> "undefined", s |-> <<>>, n |-> 0]
null == [type |-> "null", s |-> <<>>, n |-> 0]
Str(s) == [type |-> "string", s |-> s, n |-> 0]
Num(n) == [type |-> "number", s |-> <<>>, n |-> n]

\* reqR(n, def) and optR(n)
reqR(n, def) == IF n = undefined THEN def ELSE n
optR(n) == IF n = undefined THEN null ELSE n

\* o.image?.url of an image field, which holds at most one asset
urlOf(image) == IF image = <<>> THEN <<>> ELSE image[1].url

\* new WebflowMapInfo(item); the URL of an image field without an asset is
\* '' (reqRStr) or null (optR), both <<>>
WebflowMapInfo(item) ==
    LET o == item.fieldData
    IN  [name               |-> o.name,
         rowyId             |-> o.rowyid,
         minimapUrl         |-> urlOf(o.minimap),
         minimapThumbUrl    |-> urlOf(o.minimapPhotoThumb),
         downloadUrl        |-> reqR(o.downloadurl, Str(<<>>)),
         width              |-> reqR(o.width, Num(-1)),
         height             |-> reqR(o.height, Num(-1)),
         mapSize            |-> reqR(o.mapsize, Num(-1)),
         title              |-> optR(o.title),
         description        |-> optR(o.description),
         author             |-> reqR(o.author, Str(<<>>)),
         bgImageUrl         |-> urlOf(o.bgImage),
         perspectiveShotUrl |-> urlOf(o.perspectiveShot),
         moreImagesUrl      |-> [i \in DOMAIN o.moreImages |-> o.moreImages[i].url],
         windMin            |-> reqR(o.windMin, Num(-1)),
         windMax            |-> reqR(o.windMax, Num(-1)),
         tidalStrength      |-> optR(o.tidalStrength),
         teamCount          |-> reqR(o.teamCount, Num(-1)),
         maxPlayers         |-> reqR(o.maxPlayers, Num(-1)),
         textureMapUrl      |-> urlOf(o.miniMap),
         heightMapUrl       |-> urlOf(o.heightMap),
         metalMapUrl        |-> urlOf(o.metalMap),
         mapTags            |-> o.tags,
         mapTerrains        |-> o.terrains,
         item               |-> item]

\* WebflowMapInfo.generateFields(info, base?): base is a sequence of at most
\* one WebflowMapInfo; the fields are named as in the destination, without
\* their dashes ('game-tags-ref-2' is tags, 'terrain-types' is terrains)
generateMapFields(info, base) ==
    LET Base(field) == IF base = <<>> THEN <<>> ELSE base[1].item.fieldData[field]
    IN  [name              |-> info.name,
         slug              |-> slugFromName(info.name.s),
         rowyid            |-> info.rowyId,
         minimap           |-> pickImage(info.minimapUrl, Base("minimap")),
         minimapPhotoThumb |-> pickImage(info.minimapThumbUrl, Base("minimapPhotoThumb")),
         downloadurl       |-> info.downloadUrl,
         width             |-> info.width,
         height            |-> info.height,
         mapsize           |-> info.mapSize,
         title             |-> info.title,
         description       |-> info.description,
         author            |-> info.author,
         bgImage           |-> IF info.bgImageUrl # <<>>
                               THEN pickImage(info.bgImageUrl, Base("bgImage")) ELSE <<>>,
         perspectiveShot   |-> IF info.perspectiveShotUrl # <<>>
                               THEN pickImage(info.perspectiveShotUrl, Base("perspectiveShot"))
                               ELSE <<>>,
         moreImages        |-> pickImages(info.moreImagesUrl, Base("moreImages")),
         windMin           |-> info.windMin,
         windMax           |-> info.windMax,
         tidalStrength     |-> info.tidalStrength,
         teamCount         |-> info.teamCount,
         maxPlayers        |-> info.maxPlayers,
         miniMap           |-> pickImage(info.textureMapUrl, Base("miniMap")),
         heightMap         |-> pickImage(info.heightMapUrl, Base("heightMap")),
         metalMap          |-> pickImage(info.metalMapUrl, Base("metalMap")),
         tags              |-> info.mapTags,
         terrains          |-> info.mapTerrains]

\* the URLs isWebflowMapInfoEqual(a, b) hashes, all at once
isWebflowMapInfoEqualUrls(a, b) ==
    <<a.minimapUrl, b.minimapUrl, a.minimapThumbUrl, b.minimapThumbUrl,
      a.bgImageUrl, b.bgImageUrl, a.perspectiveShotUrl, b.perspectiveShotUrl>>
    \o a.moreImagesUrl \o b.moreImagesUrl
    \o <<a.textureMapUrl, b.textureMapUrl, a.heightMapUrl, b.heightMapUrl,
         a.metalMapUrl, b.metalMapUrl>>

isWebflowMapInfoEqual(a, b) ==
    LET allImagesSame ==
            /\ sameImage(a.minimapUrl, b.minimapUrl)
            /\ sameImage(a.minimapThumbUrl, b.minimapThumbUrl)
            /\ sameImage(a.bgImageUrl, b.bgImageUrl)
            /\ sameImage(a.perspectiveShotUrl, b.perspectiveShotUrl)
            /\ sameImages(a.moreImagesUrl, b.moreImagesUrl)
            /\ sameImage(a.textureMapUrl, b.textureMapUrl)
            /\ sameImage(a.heightMapUrl, b.heightMapUrl)
            /\ sameImage(a.metalMapUrl, b.metalMapUrl)
    IN  /\ allImagesSame
        /\ a.name = b.name
        /\ a.rowyId = b.rowyId
        /\ a.downloadUrl = b.downloadUrl
        /\ a.width = b.width
        /\ a.height = b.height
        /\ a.mapSize = b.mapSize
        /\ a.title = b.title
        /\ a.description = b.description
        /\ a.author = b.author
        /\ a.windMin = b.windMin
        /\ a.windMax = b.windMax
        /\ a.tidalStrength = b.tidalStrength
        /\ a.teamCount = b.teamCount
        /\ a.maxPlayers = b.maxPlayers
        /\ isSameRefs(a.mapTags, b.mapTags)
        /\ isSameRefs(a.mapTerrains, b.mapTerrains)

\* the terrainType enum of the schema (its first entries)
terrainTypeEnum == << <<"l","a","v","a">>, <<"i","c","e">> >>

getRowyMapTerrains ==
    MapFromEntries([i \in DOMAIN terrainTypeEnum |->
        [k |-> terrainTypeEnum[i],
         v |-> [name |-> terrainTypeEnum[i], slug |-> terrainTypeEnum[i]]]])

\* buildWebflowInfo: the tag vocabulary, allMapTags
RECURSIVE allMapTagsOf(_)
allMapTagsOf(tags) ==
    IF tags = <<>> THEN <<>>
    ELSE LET tag == tags[Len(tags)]
         IN  MapSet(allMapTagsOf(SubSeq(tags, 1, Len(tags) - 1)),
                    slugFromName(tag),
                    [name |-> toUpperCase(tag), slug |-> slugFromName(tag)])

RECURSIVE Flatten(_)
Flatten(ss) == IF ss = <<>> THEN <<>> ELSE Head(ss) \o Flatten(Tail(ss))

\* getDerivedInfo(map, meta) is imported from derived_map_info.js: what it
\* returns for a map is part of the map's metadata here.
getDerivedInfo(map, meta) == meta.derivedInfo

requiredFiles == {"height.png", "metal.png", "texture.jpg"}

rowyBucket == "rowy-1f075.appspot.com"

\* `${imagorUrlBase}${directive}/${bucket}/${encodeURI(path)}`
imagorUrl(directive, bucket, path) == <<"imagor", directive, bucket>> \o path

\* buildWebflowInfo: the record `info` of a map, from its CDN entry `mi` and
\* its metadata `meta`
websiteMapInfo(map, mi, meta) ==
    LET derivedInfo == getDerivedInfo(map, meta)
        OrNull(v) == IF v \in {undefined, null, Str(<<>>), Num(0)} THEN null ELSE v
        Times(a, b) == IF a.type = "number" /\ b.type = "number" THEN Num(a.n * b.n)
                       ELSE [type |-> "number", s |-> <<"N", "a", "N">>, n |-> 0]
        Shot(ref) == imagorUrl("fit-in/2250x/filters:format(webp):quality(85)",
                               rowyBucket, <<ref>>)
        Aux(directive, file) ==
            imagorUrl(directive, meta.location.bucket, <<meta.location.path, file>>)
    IN  [name               |-> map.displayName,
         rowyId             |-> map.rowyId,
         minimapUrl         |-> imagorUrl("fit-in/1024x1024/filters:format(webp):quality(85)",
                                          rowyBucket, <<map.photo[1]>>),
         minimapThumbUrl    |-> imagorUrl("fit-in/640x640/filters:format(webp):quality(85)",
                                          rowyBucket, <<map.photo[1]>>),
         downloadUrl        |-> IF mi.mirrors = <<>> THEN undefined ELSE mi.mirrors[1],
         width              |-> derivedInfo.width,
         height             |-> derivedInfo.height,
         mapSize            |-> Times(derivedInfo.width, derivedInfo.height),
         title              |-> OrNull(map.title),
         description        |-> OrNull(map.description),
         author             |-> map.author,
         bgImageUrl         |-> IF Len(map.backgroundImage) > 0
                                THEN Shot(map.backgroundImage[1]) ELSE <<>>,
         perspectiveShotUrl |-> IF Len(map.perspectiveShot) > 0
                                THEN Shot(map.perspectiveShot[1]) ELSE <<>>,
         moreImagesUrl      |-> [i \in DOMAIN map.inGameShots |-> Shot(map.inGameShots[i])],
         windMin            |-> derivedInfo.windMin,
         windMax            |-> derivedInfo.windMax,
         tidalStrength      |-> optR(derivedInfo.tidalStrength),
         teamCount          |-> map.teamCount,
         maxPlayers         |-> map.playerCount,
         textureMapUrl      |-> Aux("fit-in/1024x1024/filters:format(webp):quality(85)",
                                    "/texture.jpg"),
         heightMapUrl       |-> Aux("fit-in/1024x1024/filters:format(webp):quality(85)",
                                    "/height.png"),
         metalMapUrl        |-> Aux("fit-in/1024x1024/filters:format(png)", "/metal.png"),
         mapTags            |-> derivedInfo.tags,
         mapTerrains        |-> derivedInfo.terrainOrdered]

\* a sanity check `if (!v)`: zero and null are missing values too
missingValueFalsy(info) ==
    \/ info.rowyId = <<>>
    \/ \E v \in {info.name, info.downloadUrl, info.width, info.height, info.mapSize,
                 info.title, info.description, info.author, info.windMin, info.windMax,
                 info.tidalStrength, info.teamCount, info.maxPlayers} :
           v \in {undefined, null, Str(<<>>), Num(0)}

\* The sanity check of buildWebflowInfo: a value of the record is undefined
\* or ''.  The image URLs are template strings or null, the two lists are
\* arrays: the check never fires on them.
missingValue(info) ==
    \/ info.rowyId = <<>>
    \/ \E v \in {info.name, info.downloadUrl, info.width, info.height, info.mapSize,
                 info.title, info.description, info.author, info.windMin, info.windMax,
                 info.tidalStrength, info.teamCount, info.maxPlayers} :
           v = undefined \/ v = Str(<<>>)

\* buildWebflowInfo throws on this map: no CDN entry, no metadata or a
\* required file not extracted, no photo, or a value missing in the record
buildThrows(map, cdn, metadata) ==
    \/ ~MapHas(cdn, map.springName)
    \/ ~MapHas(metadata, map.rowyId)
    \/ ~(requiredFiles \subseteq Range(MapGet(metadata, map.rowyId).extractedFiles))
    \/ map.photo = <<>>
    \/ missingValue(websiteMapInfo(map, MapGet(cdn, map.springName),
                                   MapGet(metadata, map.rowyId)))

\* buildWebflowInfo(maps, cdnInfo, mapsMetadata): [mapInfo, allMapTags], or
\* an error thrown and nothing returned
buildWebflowInfoUnchecked(ms, cdn, metadata) ==
    LET Info(i) == websiteMapInfo(ms[i], MapGet(cdn, ms[i].springName),
                                  MapGet(metadata, ms[i].rowyId))
    IN  [throws     |-> FALSE,
         mapInfo    |-> MapFromEntries([i \in DOMAIN ms |->
                            [k |-> ms[i].rowyId, v |-> Info(i)]]),
         allMapTags |-> allMapTagsOf(Flatten([i \in DOMAIN ms |-> Info(i).mapTags]))]

buildWebflowInfo(ms, cdn, metadata) ==
    LET Info(i) == websiteMapInfo(ms[i], MapGet(cdn, ms[i].springName),
                                  MapGet(metadata, ms[i].rowyId))
    IN  IF \E i \in DOMAIN ms : buildThrows(ms[i], cdn, metadata)
        THEN [throws |-> TRUE, mapInfo |-> <<>>, allMapTags |-> <<>>]
        ELSE [throws     |-> FALSE,
              mapInfo    |-> MapFromEntries([i \in DOMAIN ms |->
                                 [k |-> ms[i].rowyId, v |-> Info(i)]]),
              allMapTags |-> allMapTagsOf(Flatten([i \in DOMAIN ms |-> Info(i).mapTags]))]

(***************************************************************************)
(* The destination (the Webflow collections API)                           *)
(***************************************************************************)
Collections == {"maps", "tags", "terrains"}

IdOf(n) == <<"id">> \o numberToString(n)
FileIdOf(n) == <<"file">> \o numberToString(n)

MkItem(n, upd, pub, fd) ==
    [id |-> IdOf(n), lastUpdated |-> upd, lastPublished |-> pub, fieldData |-> fd]

ItemIds(listing) == {listing[i].id : i \in DOMAIN listing}
ItemById(listing, id) == listing[CHOOSE i \in DOMAIN listing : listing[i].id = id]

\* What the destination stores for the fields written: an image field given
\* the asset's own fileId keeps the asset, a URL is fetched into a new asset
\* with the same bytes.
StoredFields(coll, fields, old, n) ==
    LET Old(field) == IF old = <<>> THEN <<>> ELSE old[1].fieldData[field]
        Stored(written, assets, fileId) ==
            IF \E i \in DOMAIN assets : assets[i].fileId = written
            THEN assets[CHOOSE i \in DOMAIN assets : assets[i].fileId = written]
            ELSE [fileId |-> fileId, url |-> <<"cdn">> \o Tail(written)]
        Image(field) ==
            IF fields[field] = <<>> THEN <<>>
            ELSE <<Stored(fields[field], Old(field), FileIdOf(n) \o <<field>>)>>
    IN  IF coll # "maps" THEN fields
        ELSE [fields EXCEPT
                 !.minimap           = Image("minimap"),
                 !.minimapPhotoThumb = Image("minimapPhotoThumb"),
                 !.bgImage           = Image("bgImage"),
                 !.perspectiveShot   = Image("perspectiveShot"),
                 !.miniMap           = Image("miniMap"),
                 !.heightMap         = Image("heightMap"),
                 !.metalMap          = Image("metalMap"),
                 !.moreImages        = [i \in DOMAIN @ |->
                     Stored(@[i], Old("moreImages"),
                            FileIdOf(n) \o <<"moreImages">> \o numberToString(i))]]

\* webflow.collections.items.createItem
ServeCreate(listing, coll, fields, n, now) ==
    Append(listing, MkItem(n, <<now>>, <<>>, StoredFields(coll, fields, <<>>, n)))

\* webflow.collections.items.updateItem
ServeUpdate(listing, coll, id, fields, n, now) ==
    [i \in DOMAIN listing |->
        IF listing[i].id = id
        THEN [listing[i] EXCEPT !.lastUpdated = <<now>>,
                 !.fieldData = StoredFields(coll, fields, <<listing[i]>>, n)]
        ELSE listing[i]]

\* webflow.collections.items.deleteItem
ServeDelete(listing, id) ==
    LET Other(it) == it.id # id IN SelectSeq(listing, Other)

\* webflow.collections.items.publishItem
ServePublish(listing, ids, now) ==
    [i \in DOMAIN listing |->
        IF listing[i].id \in Range(ids)
        THEN [listing[i] EXCEPT !.lastPublished = <<now>>]
        ELSE listing[i]]

Min(a, b) == IF a < b THEN a ELSE b

\* webflow.collections.items.listItems(collection.id, { limit, offset })
ServeList(listing, limit, offset) ==
    SubSeq(listing, offset + 1, Min(Len(listing), offset + limit))

(***************************************************************************)
(* Indexing the destination listings                                       *)
(***************************************************************************)
\* `${map.rowyId}-bad${dupId++}`
fakeRowyId(rowyId, dupId) == rowyId \o <<"-","b","a","d">> \o numberToString(dupId)

RECURSIVE indexMaps(_, _, _)
indexMaps(its, res, dupId) ==
    IF its = <<>> THEN res
    ELSE LET map == WebflowMapInfo(Head(its))
             dup == MapHas(res, map.rowyId)
             key == IF dup THEN fakeRowyId(map.rowyId, dupId) ELSE map.rowyId
         IN  indexMaps(Tail(its), MapSet(res, key, [map EXCEPT !.rowyId = key]),
                       IF dup THEN dupId + 1 ELSE dupId)

\* getAllWebflowMaps, after the listing
getAllWebflowMaps(its) == indexMaps(its, <<>>, 0)

\* getAllWebflowMapTags / getAllWebflowMapTerrains, after the listing
getAllWebflowMapTags(its) ==
    MapFromEntries([i \in DOMAIN its |->
        [k |-> its[i].fieldData.slug, v |-> WebflowMapTag(its[i])]])

indexOf(coll, its) ==
    IF coll = "maps" THEN getAllWebflowMaps(its) ELSE getAllWebflowMapTags(its)

(***************************************************************************)
(* Initial states: the inputs of a run                                     *)
(***************************************************************************)
MaxDups == 2    \* destination maps sharing one rowyId

RowX == <<"x">>
RowY == <<"y">>
TagFfa == <<"f","f","a">>       \* a tag name that is its own slug
TagPvE == <<"P","v","E">>       \* a tag name that is not its own slug
TagOld == <<"o","l","d">>       \* a tag no source map has
TerrainMud == <<"m","u","d">>   \* a terrain that is not in the enum

SubSeqAt(s, I) ==
    LET F[i \in 0..Len(s)] ==
            IF i = 0 THEN <<>>
            ELSE IF i \in I THEN Append(F[i - 1], s[i]) ELSE F[i - 1]
    IN  F[Len(s)]
SubSeqsOf(s) == {SubSeqAt(s, I) : I \in SUBSET DOMAIN s}

\* derivedInfo.tags of the source maps
TagLists == {<<>>, <<TagFfa>>, <<TagPvE>>}

\* a map of the source list: no background image, perspective shot or
\* in-game shots, no title
SourceMap(rowyId, photo, author) ==
    [rowyId          |-> rowyId,
     springName      |-> <<"s">> \o rowyId,
     displayName     |-> Str(<<"M">> \o rowyId),
     photo           |-> <<photo>>,
     backgroundImage |-> <<>>,
     perspectiveShot |-> <<>>,
     inGameShots     |-> <<>>,
     title           |-> Str(<<>>),
     description     |-> Str(<<"d">>),
     author          |-> author,
     teamCount       |-> Num(2),
     playerCount     |-> Num(8)]

\* its entry in the CDN's list and its metadata
SourceCdn == [mirrors |-> <<Str(<<"u">>)>>]

CompleteFiles == <<"texture.jpg", "height.png", "metal.png">>
ExtractedFileLists == {CompleteFiles, <<"texture.jpg", "height.png">>}

SourceMeta(rowyId, tags, files) ==
    [extractedFiles |-> files,
     location       |-> [bucket |-> "maps-bucket", path |-> rowyId[1]],
     derivedInfo    |-> [width |-> Num(8), height |-> Num(4),
                         windMin |-> Num(0), windMax |-> Num(20),
                         tidalStrength |-> undefined,
                         tags |-> tags,
                         terrainOrdered |-> <<terrainTypeEnum[1]>>]]

SourceLists ==
    SubSeqsOf(<<SourceMap(RowX, "p1", Str(<<"a">>)), SourceMap(RowY, "p1", Str(<<"a">>))>>)

cdnInfoOf(src) ==
    MapFromEntries([i \in DOMAIN src |-> [k |-> src[i].springName, v |-> SourceCdn]])

mapsMetadataOf(src, tags, files) ==
    MapFromEntries([i \in DOMAIN src |->
        [k |-> src[i].rowyId, v |-> SourceMeta(src[i].rowyId, tags, files)]])

\* the rowyid fields of the destination maps, in listing order
DestRowyIdLists ==
    SubSeqsOf(<<fakeRowyId(RowX, 0)>> \o [i \in 1..MaxDups |-> RowX] \o <<RowY>>)

DestVocabularies == {"empty", "synced", "stale"}

DestTagFields(vocab) ==
    CASE vocab = "empty"  -> <<>>
      [] vocab = "synced" -> <<[name |-> toUpperCase(TagFfa), slug |-> TagFfa]>>
      [] vocab = "stale"  -> <<[name |-> toUpperCase(TagOld), slug |-> TagOld],
                               [name |-> TagFfa, slug |-> TagFfa]>>

DestTerrainFields(vocab) ==
    CASE vocab = "empty"  -> <<>>
      [] vocab = "synced" -> [i \in DOMAIN terrainTypeEnum |->
                                [name |-> terrainTypeEnum[i], slug |-> terrainTypeEnum[i]]]
      [] vocab = "stale"  -> <<[name |-> TerrainMud, slug |-> TerrainMud]>>

\* what the destination items hold before the run: as an earlier sync of the
\* same source left them, published or not, or older content
DestProfiles ==
    { [author |-> Str(<<"a">>), photo |-> "p1", refs |-> "source", upd |-> <<1>>, pub |-> <<1>>],
      [author |-> Str(<<"a">>), photo |-> "p1", refs |-> "source", upd |-> <<2>>, pub |-> <<1>>],
      [author |-> Str(<<"o">>), photo |-> "p0", refs |-> "first",  upd |-> <<1>>, pub |-> <<>>] }

\* the identifiers of the listing's items with the given slugs, in order
RECURSIVE idsOfSlugs(_, _)
idsOfSlugs(listing, slugs) ==
    IF slugs = <<>> THEN <<>>
    ELSE LET hit == {i \in DOMAIN listing : listing[i].fieldData.slug = Head(slugs)}
         IN  (IF hit = {} THEN <<>> ELSE <<listing[CHOOSE i \in hit : TRUE].id>>)
             \o idsOfSlugs(listing, Tail(slugs))

DestRefs(listing, prof, slugs) ==
    IF prof.refs = "source" THEN idsOfSlugs(listing, slugs)
    ELSE IF listing = <<>> THEN <<>> ELSE <<listing[1].id>>

\* the fields of a destination map: what creating the item from a source map
\* with this rowyId, photo and author stored
DestFields(rowyid, prof, tagRefs, terrainRefs, n) ==
    LET info == websiteMapInfo(SourceMap(rowyid, prof.photo, prof.author), SourceCdn,
                               SourceMeta(rowyid, <<>>, CompleteFiles))
    IN  StoredFields("maps",
            generateMapFields([info EXCEPT !.mapTags = tagRefs,
                                           !.mapTerrains = terrainRefs], <<>>),
            <<>>, n)

InitRemote(rowyids, vocab, prof, tags) ==
    LET tf == DestTagFields(vocab)
        rf == DestTerrainFields(vocab)
        ts == [i \in DOMAIN tf |-> MkItem(i, prof.upd, prof.pub, tf[i])]
        rs == [i \in DOMAIN rf |-> MkItem(Len(tf) + i, prof.upd, prof.pub, rf[i])]
        ms == [i \in DOMAIN rowyids |->
                 MkItem(Len(tf) + Len(rf) + i, prof.upd, prof.pub,
                    DestFields(rowyids[i], prof, DestRefs(ts, prof, tags),
                               DestRefs(rs, prof, <<terrainTypeEnum[1]>>),
                               Len(tf) + Len(rf) + i))]
    IN  [maps |-> ms, tags |-> ts, terrains |-> rs]

NoDest == [maps |-> <<>>, tags |-> <<>>, terrains |-> <<>>]

\* WEBFLOW_COLLECTION_ID and WEBFLOW_API_TOKEN are both set
FullEnv == [WEBFLOW_COLLECTION_ID |-> TRUE, WEBFLOW_API_TOKEN |-> TRUE]

\* the process of a sync command, given its inputs
InitWith(dr, tl, vocab, prof, rowyids, src, files) ==
    /\ dryRun = dr
    /\ maps = src
    /\ cdnInfo = cdnInfoOf(src)
    /\ mapsMetadata = mapsMetadataOf(src, tl, files)
    /\ remote = InitRemote(rowyids, vocab, prof, tl)
    /\ nextId = Len(remote.maps) + Len(remote.tags) + Len(remote.terrains) + 1
    /\ clock = 2
    /\ dest = NoDest
    /\ rowyMapsInfo = <<>>
    /\ rowyTagsInfo = <<>>
    /\ rowyTerrainsInfo = <<>>
    /\ cur = 1
    /\ items = <<>>
    /\ updatesP = <<>>
    /\ queue = <<>>
    /\ inflight = <<>>
    /\ waiting = FALSE
    /\ log = <<>>
    /\ runNo = 1
    /\ imageHashesCache = emptyCache
    /\ newHashes = 0
    /\ cacheFile = <<>>
    /\ pLimit = idleLimit
    /\ pure = <<>>
    /\ raised = <<>>

\* syncCommand is about to run
Init ==
    \E dr \in BOOLEAN, tl \in TagLists, vocab \in DestVocabularies,
       prof \in DestProfiles, rowyids \in DestRowyIdLists,
       src \in SourceLists, files \in ExtractedFileLists :
        /\ InitWith(dr, tl, vocab, prof, rowyids, src, files)
        /\ env = FullEnv
        /\ pc = 1

(***************************************************************************)
(* syncCommand                                                             *)
(***************************************************************************)
listLimit == 100         \* getAllWebflowItems: const limit
chunkSize == 100         \* publishUpdatedWebflowItems: const chunkSize
maxConcurrent == 1       \* new Bottleneck({ maxConcurrent: 1, minTime: 600 })

\* The body of syncCommand, statement by statement.
S(op, coll) == [op |-> op, coll |-> coll]

readingSteps ==
    << S("get", "maps"), S("list", "maps"),
       S("getField", "tags"), S("list", "tags"),
       S("getField", "terrains"), S("list", "terrains"),
       S("build", "maps") >>

vocabularySteps ==
    << S("additions", "tags"), S("resolve", "tags"),
       S("additions", "terrains"), S("resolve", "terrains") >>

\* syncMapsToWebflow: additions, removals, the awaited checks, updates
mapsStepsRemovalsFirst ==
    << S("mapsRemove", "maps"), S("mapsAdd", "maps"),
       S("mapsAwait", "maps"), S("mapsUpdate", "maps") >>
mapsSteps ==
    << S("mapsAdd", "maps"), S("mapsRemove", "maps"),
       S("mapsAwait", "maps"), S("mapsUpdate", "maps") >>

publishSteps ==
    << S("publish", "terrains"), S("publish", "tags"), S("publish", "maps") >>

removalsSteps == << S("removals", "tags"), S("removals", "terrains") >>

syncCommandStepsMapsFirst ==
    readingSteps \o mapsSteps \o vocabularySteps \o publishSteps \o removalsSteps
syncCommandStepsPublishFirst ==
    readingSteps \o vocabularySteps \o publishSteps \o mapsSteps \o removalsSteps
syncCommandSteps ==
    readingSteps \o vocabularySteps \o mapsSteps \o publishSteps \o removalsSteps

Failed == pc = 0                              \* process.exit(1)
Done == pc = Len(syncCommandSteps) + 1        \* syncCommand returned
Running == pc \in DOMAIN syncCommandSteps
Step == syncCommandSteps[pc]
At(op) == Running /\ Step.op = op

\* Which statements hand their call to limiter.schedule.
limiterScheduleReadsOnly(op) == op \in {"get", "list"}
limiterSchedule(op) == op # "getField"

StartCur(p) ==
    IF p \in DOMAIN syncCommandSteps /\ syncCommandSteps[p].op \in {"list", "publish"}
    THEN 0 ELSE 1

GoNext == pc' = pc + 1 /\ cur' = StartCur(pc + 1)

srcVars == <<dryRun, maps, cdnInfo, mapsMetadata, runNo, pLimit, pure, env, raised>>
hashVars == <<imageHashesCache, newHashes, cacheFile>>
cacheVars == <<srcVars, hashVars>>
remoteVars == <<remote, nextId, clock>>
infoVars == <<rowyMapsInfo, rowyTagsInfo, rowyTerrainsInfo>>
callVars == <<queue, inflight, waiting, log>>

\* A call is issued: through the limiter, or straight to the destination.
Issue(method, coll, arg) ==
    LET call == [method |-> method, coll |-> coll, arg |-> arg,
                 via |-> IF limiterSchedule(Step.op) THEN "limiter" ELSE "direct"]
    IN  /\ ~waiting
        /\ waiting' = TRUE
        /\ log' = Append(log, call)
        /\ IF call.via = "limiter"
           THEN queue' = Append(queue, call) /\ inflight' = inflight
           ELSE inflight' = Append(inflight, call) /\ queue' = queue

\* The limiter starts the next scheduled call when it has a free slot.
LimiterRun ==
    /\ queue # <<>>
    /\ LET viaLimiter(c) == c.via = "limiter"
       IN  Len(SelectSeq(inflight, viaLimiter)) < maxConcurrent
    /\ inflight' = Append(inflight, Head(queue))
    /\ queue' = Tail(queue)
    /\ UNCHANGED <<cacheVars, remoteVars, infoVars, dest, pc, cur, items, updatesP,
                   waiting, log>>

\* The awaited call has been answered.
Answered == waiting /\ inflight # <<>>
Answer == /\ inflight' = Tail(inflight)
          /\ waiting' = FALSE
          /\ UNCHANGED <<queue, log>>

\* webflow.collections.get, in syncCommand and in getFieldCollection
GetCollectionCall ==
    /\ At("get") \/ At("getField")
    /\ Issue("get", Step.coll, <<>>)
    /\ UNCHANGED <<cacheVars, remoteVars, infoVars, dest, pc, cur, items, updatesP>>

GetCollectionReturn ==
    /\ At("get") \/ At("getField")
    /\ Answered /\ Answer
    /\ GoNext
    /\ UNCHANGED <<cacheVars, remoteVars, infoVars, dest, items, updatesP>>

\* !response.items || response.items.length === 0
lastPageWhenShort(page) == Len(page) < listLimit
lastPage(page) == page = <<>>

\* getAllWebflowItems: one page
ListItemsCall ==
    /\ At("list")
    /\ Issue("listItems", Step.coll, cur)
    /\ UNCHANGED <<cacheVars, remoteVars, infoVars, dest, pc, cur, items, updatesP>>

ListItemsReturn ==
    /\ At("list")
    /\ Answered /\ Answer
    /\ LET page == ServeList(remote[Step.coll], listLimit, cur)
       IN  IF lastPage(page)
           THEN /\ dest' = [dest EXCEPT ![Step.coll] = indexOf(Step.coll, items)]
                /\ items' = <<>>
                /\ GoNext
           ELSE /\ items' = items \o page
                /\ cur' = cur + listLimit
                /\ UNCHANGED <<dest, pc>>
    /\ UNCHANGED <<cacheVars, remoteVars, infoVars, updatesP>>

\* buildWebflowInfo and getRowyMapTerrains
Build ==
    /\ At("build")
    /\ LET built == buildWebflowInfo(maps, cdnInfo, mapsMetadata)
       IN  /\ rowyMapsInfo' = built.mapInfo
           /\ rowyTagsInfo' = built.allMapTags
           /\ rowyTerrainsInfo' = IF built.throws THEN <<>> ELSE getRowyMapTerrains
           /\ IF built.throws THEN pc' = 0 /\ cur' = 1 ELSE GoNext
    /\ UNCHANGED <<cacheVars, remoteVars, dest, items, updatesP, callVars>>

(***************************************************************************)
(* What the destination does with a call, and what it answers              *)
(***************************************************************************)
ServedListing(c) ==
    CASE c.method = "createItem" ->
            ServeCreate(remote[c.coll], c.coll, c.arg.fields, nextId, clock + 1)
      [] c.method = "updateItem" ->
            ServeUpdate(remote[c.coll], c.coll, c.arg.id, c.arg.fields, nextId, clock + 1)
      [] c.method = "deleteItem" -> ServeDelete(remote[c.coll], c.arg.id)
      [] c.method = "publishItem" -> ServePublish(remote[c.coll], c.arg.itemIds, clock + 1)
      [] OTHER -> remote[c.coll]

\* the item a createItem or updateItem call returns
ServedItem(c) ==
    IF c.method = "createItem" THEN ServedListing(c)[Len(ServedListing(c))]
    ELSE ItemById(ServedListing(c), c.arg.id)

Serve(c) ==
    /\ remote' = [remote EXCEPT ![c.coll] = ServedListing(c)]
    /\ nextId' = nextId + 1
    /\ clock' = clock + 1

(***************************************************************************)
(* syncCollectionToWebflowAdditions (tags and terrains)                    *)
(***************************************************************************)
SrcOf(coll) == IF coll = "tags" THEN rowyTagsInfo ELSE rowyTerrainsInfo

AdditionsItem == SrcOf(Step.coll)[cur].v
AdditionsAbsent == ~MapHas(dest[Step.coll], AdditionsItem.slug)
AdditionsChanged ==
    /\ ~AdditionsAbsent
    /\ ~isWebsiteMapTagEqual(AdditionsItem, MapGet(dest[Step.coll], AdditionsItem.slug))

\* an item that is in the destination and equal, or a dry run: no call
AdditionsStep ==
    /\ At("additions") /\ ~waiting /\ cur \in DOMAIN SrcOf(Step.coll)
    /\ dryRun \/ ~(AdditionsAbsent \/ AdditionsChanged)
    /\ cur' = cur + 1
    /\ UNCHANGED <<cacheVars, remoteVars, infoVars, dest, pc, items, updatesP, callVars>>

AdditionsCall ==
    /\ At("additions") /\ ~waiting /\ cur \in DOMAIN SrcOf(Step.coll)
    /\ ~dryRun
    /\ \/ /\ AdditionsAbsent
          /\ Issue("createItem", Step.coll,
                   [fields |-> generateTagFields(AdditionsItem)])
       \/ /\ AdditionsChanged
          /\ Issue("updateItem", Step.coll,
                   [id |-> MapGet(dest[Step.coll], AdditionsItem.slug).item.id,
                    fields |-> generateTagFields(AdditionsItem)])
    /\ UNCHANGED <<cacheVars, remoteVars, infoVars, dest, pc, cur, items, updatesP>>

AdditionsReturn ==
    /\ At("additions") /\ Answered /\ Answer
    /\ Serve(inflight[1])
    /\ LET item == ServedItem(inflight[1])
       IN  dest' = [dest EXCEPT ![Step.coll] =
                       MapSet(@, item.fieldData.slug, WebflowMapTag(item))]
    /\ cur' = cur + 1
    /\ UNCHANGED <<cacheVars, infoVars, pc, items, updatesP>>

(***************************************************************************)
(* resolveItemRefsInMapInfos                                               *)
(***************************************************************************)
RefsField(info, coll) == IF coll = "tags" THEN info.mapTags ELSE info.mapTerrains

\* a resolution that drops the names it does not find
resolvedRefsFoundOnly(list, refs) ==
    LET Found(name) == MapHas(refs, name)
        found == SelectSeq(list, Found)
    IN  [i \in DOMAIN found |-> MapGet(refs, found[i]).item.id]

resolvedRefs(list, refs) ==
    [i \in DOMAIN list |->
        IF MapHas(refs, list[i]) THEN MapGet(refs, list[i]).item.id ELSE list[i]]

resolveItemRefsInMapInfos(mapInfos, coll, refs) ==
    [i \in DOMAIN mapInfos |->
        [k |-> mapInfos[i].k,
         v |-> IF coll = "tags"
               THEN [mapInfos[i].v EXCEPT !.mapTags = resolvedRefs(@, refs)]
               ELSE [mapInfos[i].v EXCEPT !.mapTerrains = resolvedRefs(@, refs)]]]

MissingRef(mapInfos, coll, refs) ==
    \E i \in DOMAIN mapInfos :
        \E j \in DOMAIN RefsField(mapInfos[i].v, coll) :
            ~MapHas(refs, RefsField(mapInfos[i].v, coll)[j])

\* resolveItemRefsInMapInfos(mapInfos, field, refs, dryRun): whether it throws,
\* and the records as it leaves them.  The records before the one it throws
\* on have been assigned their resolved list.
resolveItemRefs(mapInfos, coll, refs, dr) ==
    LET Missing(i) == MissingRef(<<mapInfos[i]>>, coll, refs)
        throws == ~dr /\ \E i \in DOMAIN mapInfos : Missing(i)
        first == IF throws THEN CHOOSE i \in DOMAIN mapInfos :
                                   Missing(i) /\ \A j \in 1..(i - 1) : ~Missing(j)
                 ELSE Len(mapInfos) + 1
        all == resolveItemRefsInMapInfos(mapInfos, coll, refs)
    IN  [throws   |-> throws,
         mapInfos |-> [i \in DOMAIN mapInfos |-> IF i < first THEN all[i] ELSE mapInfos[i]]]

Resolve ==
    /\ At("resolve")
    /\ LET r == resolveItemRefs(rowyMapsInfo, Step.coll, dest[Step.coll], dryRun)
       IN  /\ rowyMapsInfo' = r.mapInfos
           /\ IF r.throws
              THEN pc' = 0 /\ cur' = cur      \* throw, caught: process.exit(1)
              ELSE GoNext
    /\ UNCHANGED <<cacheVars, remoteVars, rowyTagsInfo, rowyTerrainsInfo, dest, items,
                   updatesP, callVars>>

(***************************************************************************)
(* syncMapsToWebflow                                                       *)
(***************************************************************************)
MapsAddMap == rowyMapsInfo[cur].v

\* a map that is in the destination: its equality check is started and not
\* awaited; a map that is not, in a dry run: no call
MapsAddStep ==
    /\ At("mapsAdd") /\ ~waiting /\ cur \in DOMAIN rowyMapsInfo
    /\ IF MapHas(dest.maps, MapsAddMap.rowyId)
       THEN updatesP' = Append(updatesP,
                [done |-> FALSE, same |-> FALSE, map |-> MapsAddMap,
                 webflowMap |-> MapGet(dest.maps, MapsAddMap.rowyId),
                 misses |-> missed(imageHashesCache,
                     isWebflowMapInfoEqualUrls(MapsAddMap,
                         MapGet(dest.maps, MapsAddMap.rowyId)))])
       ELSE dryRun /\ updatesP' = updatesP
    /\ cur' = cur + 1
    /\ UNCHANGED <<cacheVars, remoteVars, infoVars, dest, pc, items, callVars>>

MapsAddCall ==
    /\ At("mapsAdd") /\ ~waiting /\ cur \in DOMAIN rowyMapsInfo
    /\ ~MapHas(dest.maps, MapsAddMap.rowyId) /\ ~dryRun
    /\ Issue("createItem", "maps", [fields |-> generateMapFields(MapsAddMap, <<>>)])
    /\ UNCHANGED <<cacheVars, remoteVars, infoVars, dest, pc, cur, items, updatesP>>

MapsAddReturn ==
    /\ At("mapsAdd") /\ Answered /\ Answer
    /\ Serve(inflight[1])
    /\ dest' = [dest EXCEPT !.maps =
                   MapSet(@, MapsAddMap.rowyId, WebflowMapInfo(ServedItem(inflight[1])))]
    /\ cur' = cur + 1
    /\ UNCHANGED <<cacheVars, infoVars, pc, items, updatesP>>

\* One of the started equality checks completes, whatever syncMapsToWebflow
\* is doing meanwhile.
EqualityCheckDone ==
    \E k \in DOMAIN updatesP :
        /\ Running
        /\ ~updatesP[k].done
        /\ updatesP' = [updatesP EXCEPT ![k].done = TRUE,
               ![k].same = isWebflowMapInfoEqual(updatesP[k].map, updatesP[k].webflowMap)]
        /\ \E st \in hashedStates(CacheState, updatesP[k].misses) :
               /\ imageHashesCache' = st.cache
               /\ newHashes' = st.newHashes
               /\ cacheFile' = st.file
        /\ UNCHANGED <<srcVars, remoteVars, infoVars, dest, pc, cur, items, callVars>>

MapsRemoveMap == dest.maps[cur].v

MapsRemoveStep ==
    /\ At("mapsRemove") /\ ~waiting /\ cur \in DOMAIN dest.maps
    /\ dryRun \/ MapHas(rowyMapsInfo, MapsRemoveMap.rowyId)
    /\ cur' = cur + 1
    /\ UNCHANGED <<cacheVars, remoteVars, infoVars, dest, pc, items, updatesP, callVars>>

MapsRemoveCallWhateverTheSource ==
    /\ At("mapsRemove") /\ ~waiting /\ cur \in DOMAIN dest.maps
    /\ ~dryRun
    /\ Issue("deleteItem", "maps", [id |-> MapsRemoveMap.item.id])
    /\ UNCHANGED <<cacheVars, remoteVars, infoVars, dest, pc, cur, items, updatesP>>

MapsRemoveCall ==
    /\ At("mapsRemove") /\ ~waiting /\ cur \in DOMAIN dest.maps
    /\ ~dryRun /\ ~MapHas(rowyMapsInfo, MapsRemoveMap.rowyId)
    /\ Issue("deleteItem", "maps", [id |-> MapsRemoveMap.item.id])
    /\ UNCHANGED <<cacheVars, remoteVars, infoVars, dest, pc, cur, items, updatesP>>

\* dest.delete during the iteration: the next entry moves to the cursor
MapsRemoveReturn ==
    /\ At("mapsRemove") /\ Answered /\ Answer
    /\ Serve(inflight[1])
    /\ dest' = [dest EXCEPT !.maps = MapDelete(@, MapsRemoveMap.rowyId)]
    /\ UNCHANGED <<cacheVars, infoVars, pc, cur, items, updatesP>>

\* const updates = await Promise.all(updatesP)
MapsAwait ==
    /\ At("mapsAwait")
    /\ \A k \in DOMAIN updatesP : updatesP[k].done
    /\ GoNext
    /\ UNCHANGED <<cacheVars, remoteVars, infoVars, dest, items, updatesP, callVars>>

\* The URLs generateFields(map, webflowMap) hashes: each image that has a
\* base, and the base's.  The equality check of the pair has hashed them all
\* before.
generateFieldsUrls(u) ==
    LET o == u.webflowMap.item.fieldData
        Picked(url, image) == IF image = <<>> THEN <<>> ELSE <<url, image[1].url>>
        PickedIf(url, image) == IF url = <<>> THEN <<>> ELSE Picked(url, image)
    IN  Picked(u.map.minimapUrl, o.minimap)
        \o Picked(u.map.minimapThumbUrl, o.minimapPhotoThumb)
        \o PickedIf(u.map.bgImageUrl, o.bgImage)
        \o PickedIf(u.map.perspectiveShotUrl, o.perspectiveShot)
        \o u.map.moreImagesUrl \o [i \in DOMAIN o.moreImages |-> o.moreImages[i].url]
        \o Picked(u.map.textureMapUrl, o.miniMap)
        \o Picked(u.map.heightMapUrl, o.heightMap)
        \o Picked(u.map.metalMapUrl, o.metalMap)

MapsUpdateStep ==
    /\ At("mapsUpdate") /\ ~waiting /\ cur \in DOMAIN updatesP
    /\ dryRun \/ updatesP[cur].same
    /\ cur' = cur + 1
    /\ IF updatesP[cur].same
       THEN UNCHANGED hashVars
       ELSE Hashed(generateFieldsUrls(updatesP[cur]))
    /\ UNCHANGED <<srcVars, remoteVars, infoVars, dest, pc, items, updatesP, callVars>>

MapsUpdateCall ==
    /\ At("mapsUpdate") /\ ~waiting /\ cur \in DOMAIN updatesP
    /\ ~dryRun /\ ~updatesP[cur].same
    /\ Issue("updateItem", "maps",
             [id |-> updatesP[cur].webflowMap.item.id,
              fields |-> generateMapFields(updatesP[cur].map, <<updatesP[cur].webflowMap>>)])
    /\ Hashed(generateFieldsUrls(updatesP[cur]))
    /\ UNCHANGED <<srcVars, remoteVars, infoVars, dest, pc, cur, items, updatesP>>

MapsUpdateReturn ==
    /\ At("mapsUpdate") /\ Answered /\ Answer
    /\ Serve(inflight[1])
    /\ dest' = [dest EXCEPT !.maps =
                   MapSet(@, updatesP[cur].map.rowyId,
                          WebflowMapInfo(ServedItem(inflight[1])))]
    /\ cur' = cur + 1
    /\ UNCHANGED <<cacheVars, infoVars, pc, items, updatesP>>

(***************************************************************************)
(* publishUpdatedWebflowItems                                              *)
(***************************************************************************)
\* !i.lastPublished || Date.parse(i.lastPublished) < Date.parse(i.lastUpdated!)
needsPublishAlways(item) == TRUE
needsPublishUnpublishedOnly(item) == item.lastPublished = <<>>
needsPublish(item) ==
    \/ item.lastPublished = <<>>
    \/ item.lastUpdated # <<>> /\ item.lastPublished[1] < item.lastUpdated[1]

publishItemIds(index) ==
    LET Selected(e) == needsPublish(e.v.item)
        sel == SelectSeq(index, Selected)
    IN  [i \in DOMAIN sel |-> sel[i].v.item.id]

\* itemIds.slice(i, i + chunkSize)
slice(s, from, to) == SubSeq(s, from + 1, Min(Len(s), to))

PublishCallInDryRun ==
    /\ At("publish") /\ ~waiting
    /\ cur < Len(publishItemIds(dest[Step.coll]))
    /\ Issue("publishItem", Step.coll,
             [itemIds |-> slice(publishItemIds(dest[Step.coll]), cur, cur + chunkSize)])
    /\ UNCHANGED <<cacheVars, remoteVars, infoVars, dest, pc, cur, items, updatesP>>

PublishCall ==
    /\ At("publish") /\ ~waiting /\ ~dryRun
    /\ cur < Len(publishItemIds(dest[Step.coll]))
    /\ Issue("publishItem", Step.coll,
             [itemIds |-> slice(publishItemIds(dest[Step.coll]), cur, cur + chunkSize)])
    /\ UNCHANGED <<cacheVars, remoteVars, infoVars, dest, pc, cur, items, updatesP>>

PublishReturn ==
    /\ At("publish") /\ Answered /\ Answer
    /\ Serve(inflight[1])
    /\ cur' = cur + chunkSize
    /\ UNCHANGED <<cacheVars, infoVars, dest, pc, items, updatesP>>

PublishEnd ==
    /\ At("publish") /\ ~waiting
    /\ dryRun \/ cur >= Len(publishItemIds(dest[Step.coll]))
    /\ GoNext
    /\ UNCHANGED <<cacheVars, remoteVars, infoVars, dest, items, updatesP, callVars>>

(***************************************************************************)
(* syncCollectionToWebflowRemovals (tags and terrains)                     *)
(***************************************************************************)
RemovalsItem == dest[Step.coll][cur].v

RemovalsStep ==
    /\ At("removals") /\ ~waiting /\ cur \in DOMAIN dest[Step.coll]
    /\ dryRun \/ MapHas(SrcOf(Step.coll), RemovalsItem.slug)
    /\ cur' = cur + 1
    /\ UNCHANGED <<cacheVars, remoteVars, infoVars, dest, pc, items, updatesP, callVars>>

RemovalsCall ==
    /\ At("removals") /\ ~waiting /\ cur \in DOMAIN dest[Step.coll]
    /\ ~dryRun /\ ~MapHas(SrcOf(Step.coll), RemovalsItem.slug)
    /\ Issue("deleteItem", Step.coll, [id |-> RemovalsItem.item.id])
    /\ UNCHANGED <<cacheVars, remoteVars, infoVars, dest, pc, cur, items, updatesP>>

RemovalsReturn ==
    /\ At("removals") /\ Answered /\ Answer
    /\ Serve(inflight[1])
    /\ dest' = [dest EXCEPT ![Step.coll] = MapDelete(@, RemovalsItem.slug)]
    /\ UNCHANGED <<cacheVars, infoVars, pc, cur, items, updatesP>>

(***************************************************************************)
(* The loops' ends, and the specification                                  *)
(***************************************************************************)
LoopSeq ==
    CASE Step.op = "additions"  -> SrcOf(Step.coll)
      [] Step.op = "mapsAdd"    -> rowyMapsInfo
      [] Step.op = "mapsRemove" -> dest.maps
      [] Step.op = "mapsUpdate" -> updatesP
      [] Step.op = "removals"   -> dest[Step.coll]

\* a for loop has gone through its sequence
LoopEnd ==
    /\ Running /\ ~waiting
    /\ Step.op \in {"additions", "mapsAdd", "mapsRemove", "mapsUpdate", "removals"}
    /\ cur > Len(LoopSeq)
    /\ GoNext
    /\ UNCHANGED <<cacheVars, remoteVars, infoVars, dest, items, updatesP, callVars>>

Next ==
    \/ LimiterRun
    \/ GetCollectionCall \/ GetCollectionReturn
    \/ ListItemsCall \/ ListItemsReturn
    \/ Build
    \/ AdditionsStep \/ AdditionsCall \/ AdditionsReturn
    \/ Resolve
    \/ MapsAddStep \/ MapsAddCall \/ MapsAddReturn
    \/ EqualityCheckDone
    \/ MapsRemoveStep \/ MapsRemoveCall \/ MapsRemoveReturn
    \/ MapsAwait
    \/ MapsUpdateStep \/ MapsUpdateCall \/ MapsUpdateReturn
    \/ PublishCall \/ PublishReturn \/ PublishEnd
    \/ RemovalsStep \/ RemovalsCall \/ RemovalsReturn
    \/ LoopEnd

Spec == Init /\ [][Next]_vars

(***************************************************************************)
(* The sync command run a second time, with the same source, on the        *)
(* destination as the first run left it.                                   *)
(***************************************************************************)
Rerun ==
    /\ Done /\ runNo = 1 /\ ~dryRun
    /\ runNo' = 2
    /\ dest' = NoDest
    /\ rowyMapsInfo' = <<>> /\ rowyTagsInfo' = <<>> /\ rowyTerrainsInfo' = <<>>
    /\ pc' = 1 /\ cur' = 1
    /\ items' = <<>> /\ updatesP' = <<>>
    /\ log' = <<>>
    \* the new process reads the file the first one saved before exiting, or
    \* starts empty when the file could not be written or read
    /\ cacheFile' \in savedFiles(CacheState)
    /\ imageHashesCache' = loadedCache(cacheFile')
    /\ newHashes' = 0
    /\ UNCHANGED <<dryRun, maps, cdnInfo, mapsMetadata, pure, pLimit, env, raised, remoteVars,
                   queue, inflight, waiting>>

NextTwice == Next \/ Rerun

SpecTwice == Init /\ [][NextTwice]_vars

(***************************************************************************)
(* The process from its start, with destination calls that raise an error  *)
(***************************************************************************)
Started == pc = -1        \* the module is loaded, nothing has run yet

\* if (!process.env.WEBFLOW_COLLECTION_ID || !process.env.WEBFLOW_API_TOKEN)
CheckEnv ==
    /\ Started
    /\ pc' = IF env.WEBFLOW_COLLECTION_ID /\ env.WEBFLOW_API_TOKEN THEN 1 ELSE 0
    /\ UNCHANGED <<cacheVars, remoteVars, infoVars, dest, cur, items, updatesP, callVars>>

\* an error handler that goes on with the statement that raised the error
onErrorRetry(p) == p

\* the catch block of syncCommand ends the process with process.exit(1); an
\* error raised before the try block rejects the promise of syncCommand,
\* which nothing handles: the process ends with a non-zero exit code
onError(p) == 0

\* The awaited call raises an error: the destination has carried it out or
\* has not.
CallFails ==
    /\ Running /\ Answered
    /\ raised' = <<[call |-> inflight[1], at |-> Len(log)]>>
    /\ inflight' = Tail(inflight)
    /\ waiting' = FALSE
    /\ pc' = onError(pc)
    /\ \/ UNCHANGED remoteVars
       \/ /\ inflight[1].method \in {"createItem", "updateItem", "deleteItem", "publishItem"}
          /\ Serve(inflight[1])
    /\ UNCHANGED <<dryRun, maps, cdnInfo, mapsMetadata, runNo, pLimit, pure, env, hashVars,
                   infoVars, dest, cur, items, updatesP, queue, log>>

InitFail ==
    \E dr \in BOOLEAN, vocab \in {"empty", "stale"}, prof \in DestProfiles,
       rowyids \in SubSeqsOf(<<RowX, RowY>>), src \in SourceLists,
       e \in [WEBFLOW_COLLECTION_ID : BOOLEAN, WEBFLOW_API_TOKEN : BOOLEAN] :
        /\ prof.refs = "first"
        /\ InitWith(dr, <<TagFfa>>, vocab, prof, rowyids, src, CompleteFiles)
        /\ env = e
        /\ pc = -1

NextFail == Next \/ CheckEnv \/ CallFails

SpecFail == InitFail /\ [][NextFail]_vars

(***************************************************************************)
(* publishUpdatedWebflowItems on its own, from an in-memory set of up to   *)
(* MaxPublishItems items with every combination of timestamps              *)
(***************************************************************************)
MaxPublishItems == 201

PublishIndex(coll) ==
    CHOOSE p \in DOMAIN syncCommandSteps : syncCommandSteps[p] = S("publish", coll)

\* lastUpdated and lastPublished of the n-th item
PublishTimes(pattern, n) ==
    IF pattern = "unpublished" THEN [upd |-> <<1>>, pub |-> <<>>]
    ELSE CASE n % 6 = 0 -> [upd |-> <<1>>, pub |-> <<>>]
           [] n % 6 = 1 -> [upd |-> <<2>>, pub |-> <<1>>]
           [] n % 6 = 2 -> [upd |-> <<>>,  pub |-> <<>>]
           [] n % 6 = 3 -> [upd |-> <<2>>, pub |-> <<2>>]
           [] n % 6 = 4 -> [upd |-> <<2>>, pub |-> <<3>>]
           [] n % 6 = 5 -> [upd |-> <<>>,  pub |-> <<1>>]

PublishItems(pattern, count) ==
    [n \in 1..count |->
        MkItem(n, PublishTimes(pattern, n).upd, PublishTimes(pattern, n).pub,
               [name |-> numberToString(n), slug |-> numberToString(n)])]

\* the index getAllWebflowMapTags makes of a listing whose slugs are distinct
PublishIndexed(its) ==
    [n \in DOMAIN its |-> [k |-> its[n].fieldData.slug, v |-> WebflowMapTag(its[n])]]

InitPublish ==
    \E dr \in BOOLEAN, coll \in {"tags", "terrains"},
       pattern \in {"unpublished", "mixed"}, count \in 0..MaxPublishItems :
        /\ dryRun = dr
        /\ maps = <<>> /\ cdnInfo = <<>> /\ mapsMetadata = <<>>
        /\ remote = [NoDest EXCEPT ![coll] = PublishItems(pattern, count)]
        /\ nextId = count + 1
        /\ clock = 4
        /\ dest = [NoDest EXCEPT ![coll] = PublishIndexed(remote[coll])]
        /\ rowyMapsInfo = <<>>
        /\ rowyTagsInfo = <<>>
        /\ rowyTerrainsInfo = <<>>
        /\ pc = PublishIndex(coll)
        /\ cur = 0
        /\ items = <<>>
        /\ updatesP = <<>>
        /\ queue = <<>>
        /\ inflight = <<>>
        /\ waiting = FALSE
        /\ log = <<>>
        /\ runNo = 1
        /\ imageHashesCache = emptyCache
        /\ newHashes = 0
        /\ cacheFile = <<>>
        /\ pLimit = idleLimit
        /\ pure = <<>>
        /\ env = FullEnv
        /\ raised = <<>>

NextPublish == LimiterRun \/ PublishCall \/ PublishReturn \/ PublishEnd

SpecPublish == InitPublish /\ [][NextPublish]_vars

(***************************************************************************)
(* getAllWebflowItems on its own, on a collection of up to MaxListItems    *)
(* items that nothing else changes                                         *)
(***************************************************************************)
MaxListItems == 201

ListIndex(coll) ==
    CHOOSE p \in DOMAIN syncCommandSteps : syncCommandSteps[p] = S("list", coll)

InitList ==
    \E dr \in BOOLEAN, coll \in {"tags", "terrains"}, count \in 0..MaxListItems :
        /\ dryRun = dr
        /\ maps = <<>> /\ cdnInfo = <<>> /\ mapsMetadata = <<>>
        /\ remote = [NoDest EXCEPT ![coll] = PublishItems("mixed", count)]
        /\ nextId = count + 1
        /\ clock = 4
        /\ dest = NoDest
        /\ rowyMapsInfo = <<>>
        /\ rowyTagsInfo = <<>>
        /\ rowyTerrainsInfo = <<>>
        /\ pc = ListIndex(coll)
        /\ cur = 0
        /\ items = <<>>
        /\ updatesP = <<>>
        /\ queue = <<>>
        /\ inflight = <<>>
        /\ waiting = FALSE
        /\ log = <<>>
        /\ runNo = 1
        /\ imageHashesCache = emptyCache
        /\ newHashes = 0
        /\ cacheFile = <<>>
        /\ pLimit = idleLimit
        /\ pure = <<>>
        /\ env = FullEnv
        /\ raised = <<>>

NextList == LimiterRun \/ ListItemsCall \/ ListItemsReturn

SpecList == InitList /\ [][NextList]_vars

(***************************************************************************)
(* The image helpers on their own                                          *)
(***************************************************************************)
ImageUrls == {<<>>} \cup {<<host, bytes>> : host \in {"imagor", "cdn"}, bytes \in {"p1", "p2"}}

\* nothing cached, a digest cached, a digest cached before the bytes changed
ImageCaches ==
    { emptyCache,
      [u \in {<<"cdn", "p1">>} |-> digest(<<"cdn", "p1">>)],
      [u \in {<<"cdn", "p1">>} |-> digest(<<"cdn", "p2">>)] }

ImageBases == {<<>>} \cup {<<[fileId |-> FileIdOf(1), url |-> u]>> : u \in ImageUrls}

\* the lists given to sameImages and pickImages
MaxImages == 2

ListUrls == {<<host, bytes>> : host \in {"imagor"}, bytes \in {"p1", "p2", "p3"}}
UrlLists == UNION {[1..n -> ListUrls] : n \in 0..MaxImages}
AssetUrls == {<<"cdn", bytes>> : bytes \in {"p1", "p2"}}
AssetLists ==
    {<<>>}
    \cup {<<[fileId |-> FileIdOf(1), url |-> u]>> : u \in AssetUrls}
    \cup {<<[fileId |-> FileIdOf(m), url |-> u], [fileId |-> FileIdOf(3 - m), url |-> w]>> :
             m \in {1, 2}, u \in AssetUrls, w \in AssetUrls}

Reverse(s) == [i \in DOMAIN s |-> s[Len(s) + 1 - i]]

\* no sync in progress
NoRun ==
    /\ dryRun = FALSE
    /\ maps = <<>> /\ cdnInfo = <<>> /\ mapsMetadata = <<>>
    /\ remote = NoDest
    /\ nextId = 1
    /\ clock = 2
    /\ dest = NoDest
    /\ rowyMapsInfo = <<>>
    /\ rowyTagsInfo = <<>>
    /\ rowyTerrainsInfo = <<>>
    /\ pc = 0
    /\ cur = 1
    /\ items = <<>>
    /\ updatesP = <<>>
    /\ queue = <<>>
    /\ inflight = <<>>
    /\ waiting = FALSE
    /\ log = <<>>
    /\ runNo = 1
    /\ newHashes = 0
    /\ pLimit = idleLimit
    /\ env = FullEnv
    /\ raised = <<>>

InitImage ==
    /\ NoRun
    /\ imageHashesCache \in ImageCaches
    /\ cacheFile = savedFile(imageHashesCache)
    /\ \/ \E url \in ImageUrls, base \in ImageBases :
            pure = [fn |-> "pickImage", url |-> url, base |-> base,
                    applied |-> FALSE, result |-> <<>>]
       \/ \E urls \in UrlLists, base \in AssetLists :
            pure = [fn |-> "pickImages", urls |-> urls, base |-> base,
                    applied |-> FALSE, result |-> <<>>, resultReversed |-> <<>>]
       \/ \E url1 \in ImageUrls, url2 \in ImageUrls :
            pure = [fn |-> "sameImage", url1 |-> url1, url2 |-> url2,
                    applied |-> FALSE, result |-> FALSE]
       \/ \E urls1 \in UrlLists, urls2 \in UrlLists :
            pure = [fn |-> "sameImages", urls1 |-> urls1, urls2 |-> urls2,
                    applied |-> FALSE, result |-> FALSE]

pureVars == <<dryRun, maps, cdnInfo, mapsMetadata, runNo, remoteVars, infoVars, dest, pc, cur, items,
              updatesP, callVars, env, raised>>

\* await pickImage(url, base)
ApplyPickImage ==
    /\ pure # <<>> /\ pure.fn = "pickImage" /\ ~pure.applied
    /\ pure' = [pure EXCEPT !.applied = TRUE, !.result = pickImage(pure.url, pure.base)]
    /\ IF pure.base = <<>>
       THEN UNCHANGED hashVars
       ELSE Hashed(<<pure.url, pure.base[1].url>>)
    /\ UNCHANGED <<pureVars, pLimit>>

\* await pickImages(urls, base), and again with the assets in reverse order
ApplyPickImages ==
    /\ pure # <<>> /\ pure.fn = "pickImages" /\ ~pure.applied
    /\ pure' = [pure EXCEPT !.applied = TRUE,
                            !.result = pickImages(pure.urls, pure.base),
                            !.resultReversed = pickImages(pure.urls, Reverse(pure.base))]
    /\ Hashed(pure.urls \o [i \in DOMAIN pure.base |-> pure.base[i].url])
    /\ UNCHANGED <<pureVars, pLimit>>

\* await sameImage(url1, url2)
ApplySameImage ==
    /\ pure # <<>> /\ pure.fn = "sameImage" /\ ~pure.applied
    /\ pure' = [pure EXCEPT !.applied = TRUE, !.result = sameImage(pure.url1, pure.url2)]
    /\ Hashed(<<pure.url1, pure.url2>>)
    /\ UNCHANGED <<pureVars, pLimit>>

\* await sameImages(urls1, urls2)
ApplySameImages ==
    /\ pure # <<>> /\ pure.fn = "sameImages" /\ ~pure.applied
    /\ pure' = [pure EXCEPT !.applied = TRUE, !.result = sameImages(pure.urls1, pure.urls2)]
    /\ Hashed(pure.urls1 \o pure.urls2)
    /\ UNCHANGED <<pureVars, pLimit>>

NextImage == ApplyPickImage \/ ApplyPickImages \/ ApplySameImage \/ ApplySameImages

SpecImage == InitImage /\ [][NextImage]_vars

(***************************************************************************)
(* slugFromName on its own                                                 *)
(***************************************************************************)
MaxNameLen == 3

NameChars == {"a", "B", "7", ".", " ", "_", "-", "!"}
Names == UNION {[1..n -> NameChars] : n \in 0..MaxNameLen}

InitSlug ==
    /\ NoRun
    /\ imageHashesCache = emptyCache
    /\ cacheFile = <<>>
    /\ \E name \in Names :
          pure = [fn |-> "slugFromName", name |-> name, applied |-> FALSE,
                  result |-> <<>>, again |-> <<>>]

\* slugFromName(name), and slugFromName of the result
ApplySlugFromName ==
    /\ pure # <<>> /\ pure.fn = "slugFromName" /\ ~pure.applied
    /\ pure' = [pure EXCEPT !.applied = TRUE,
                            !.result = slugFromName(pure.name),
                            !.again = slugFromName(slugFromName(pure.name))]
    /\ UNCHANGED <<pureVars, hashVars, pLimit>>

NextSlug == ApplySlugFromName

SpecSlug == InitSlug /\ [][NextSlug]_vars

(***************************************************************************)
(* getImageHash on its own: the calls of a batch are made together         *)
(* (Promise.all(urls.map(getImageHash))), the next batch once every call   *)
(* of the batch before has returned (await).                               *)
(***************************************************************************)
MaxCalls == 32

CacheUrlA == <<"cdn", "p1">>
CacheUrlB == <<"cdn", "p2">>

\* one or two calls, each for '' or one of two URLs
SmallBatches ==
    {<<u>> : u \in {<<>>, CacheUrlA, CacheUrlB}}
    \cup {<<u, w>> : u, w \in {<<>>, CacheUrlA, CacheUrlB}}

\* many calls at once, for the two URLs in turn
LargeBatch == [i \in 1..MaxCalls |-> IF i % 2 = 1 THEN CacheUrlA ELSE CacheUrlB]

BatchLists ==
    {<<b>> : b \in SmallBatches}
    \cup {<<b, c>> : b, c \in SmallBatches}
    \cup {<<LargeBatch>>, <<LargeBatch, <<CacheUrlA>> >>}

InitCache ==
    /\ NoRun
    /\ imageHashesCache \in ImageCaches
    /\ cacheFile = savedFile(imageHashesCache)
    /\ \E batches \in BatchLists :
           pure = [fn |-> "getImageHash", batches |-> batches,
                   cache0 |-> imageHashesCache,
                   batch |-> 0,        \* the batch in progress
                   pending |-> 0,      \* its calls that have not returned
                   returned |-> {},    \* what the calls returned, and how
                   downloads |-> 0,    \* downloads started
                   stored |-> 0,       \* digests stored
                   saves |-> 0]        \* saves made by getImageHash

\* The calls of the next batch are made.  Each call returns at once for ''
\* and for a URL in the cache; otherwise it hands its download to the pool.
CallBatch ==
    /\ pure # <<>> /\ pure.fn = "getImageHash"
    /\ pure.pending = 0 /\ pure.batch < Len(pure.batches)
    /\ LET b == pure.batches[pure.batch + 1]
           misses == missed(imageHashesCache, b)
           Answers(u) == IF u = <<>> THEN "empty" ELSE "cache"
       IN  /\ pLimit' = [pLimit EXCEPT !.queue = @ \o misses]
           /\ pure' = [pure EXCEPT
                  !.batch = @ + 1,
                  !.pending = Len(misses),
                  !.returned = @ \cup
                      {[batch |-> pure.batch + 1, url |-> u,
                        hash |-> getImageHash(u), from |-> Answers(u)] :
                           u \in Range(b) \ Range(misses)}]
    /\ UNCHANGED <<pureVars, hashVars>>

\* p-limit starts a queued download when fewer than `concurrency` are running
limitHasRoomAlways(active) == TRUE
limitHasRoom(active) == BagCardinality(active) < concurrency

StartDownload ==
    /\ pure # <<>> /\ pure.fn = "getImageHash"
    /\ pLimit.queue # <<>> /\ limitHasRoom(pLimit.active)
    /\ pLimit' = [queue |-> Tail(pLimit.queue),
                  active |-> pLimit.active (+) SetToBag({Head(pLimit.queue)})]
    /\ pure' = [pure EXCEPT !.downloads = @ + 1]
    /\ UNCHANGED <<pureVars, hashVars>>

\* A download ends: its call stores the digest and returns it.
FinishDownload ==
    /\ pure # <<>> /\ pure.fn = "getImageHash"
    /\ \E url \in BagToSet(pLimit.active) :
        /\ pLimit' = [pLimit EXCEPT !.active = @ (-) SetToBag({url})]
        /\ \E st \in digestStored(CacheState, url) :
            /\ imageHashesCache' = st.cache
            /\ newHashes' = st.newHashes
            /\ cacheFile' = st.file
            /\ pure' = [pure EXCEPT
                   !.pending = @ - 1,
                   !.stored = @ + 1,
                   !.saves = IF st.newHashes = 0 THEN @ + 1 ELSE @,
                   !.returned = @ \cup
                       {[batch |-> pure.batch, url |-> url,
                         hash |-> digest(url), from |-> "download"]}]
    /\ UNCHANGED pureVars

NextCache == CallBatch \/ StartDownload \/ FinishDownload

SpecCache == InitCache /\ [][NextCache]_vars

(***************************************************************************)
(* The cache object from the start of the process to its end: constructed  *)
(* from the file found on disk, used, and saved on beforeExit              *)
(***************************************************************************)
MaxHashed == 2    \* getImageHash calls between the constructor and the exit

FileVersions == {0, imageHashesCacheVersion, 2}

\* no file, text that is not JSON, a file written by this or another version
CacheFiles ==
    {<<>>, <<[json |-> FALSE, version |-> 0, entries |-> emptyCache]>>}
    \cup {<<[json |-> TRUE, version |-> v, entries |-> c]>> :
              v \in FileVersions, c \in ImageCaches}

InitLoad ==
    /\ NoRun
    /\ imageHashesCache = emptyCache
    /\ cacheFile \in CacheFiles
    /\ pure = [fn |-> "ImageHashesCache", at |-> "new", file0 |-> cacheFile,
               loaded |-> emptyCache, warnings |-> 0, hashed |-> 0,
               saveFailed |-> FALSE]

\* const imageHashesCache = new ImageHashesCache(...)
Construct ==
    /\ pure # <<>> /\ pure.fn = "ImageHashesCache" /\ pure.at = "new"
    /\ LET c == constructed(cacheFile)
       IN  /\ imageHashesCache' = c.cache
           /\ pure' = [pure EXCEPT !.at = IF c.throws THEN "crashed" ELSE "running",
                                   !.loaded = c.cache,
                                   !.warnings = IF c.warned THEN @ + 1 ELSE @]
    /\ UNCHANGED <<pureVars, newHashes, cacheFile, pLimit>>

\* await imageHashesCache.getImageHash(url)
HashUrl ==
    /\ pure # <<>> /\ pure.fn = "ImageHashesCache" /\ pure.at = "running"
    /\ pure.hashed < MaxHashed
    /\ \E url \in ImageUrls : Hashed(<<url>>)
    /\ pure' = [pure EXCEPT !.hashed = @ + 1]
    /\ UNCHANGED <<pureVars, pLimit>>

\* process.on('beforeExit', () => this.saveImageHashesCacheSync())
BeforeExit ==
    /\ pure # <<>> /\ pure.fn = "ImageHashesCache" /\ pure.at = "running"
    /\ \E written \in BOOLEAN :
           LET saved == saveImageHashesCacheSync(CacheState, written)
           IN  /\ cacheFile' = saved.file
               /\ pure' = [pure EXCEPT !.at = IF saved.throws THEN "crashed" ELSE "exited",
                                       !.warnings = IF saved.warned THEN @ + 1 ELSE @,
                                       !.saveFailed = ~written]
    /\ UNCHANGED <<pureVars, imageHashesCache, newHashes, pLimit>>

NextLoad == Construct \/ HashUrl \/ BeforeExit

SpecLoad == InitLoad /\ [][NextLoad]_vars

(***************************************************************************)
(* resolveItemRefsInMapInfos on its own: two records with lists of up to   *)
(* MaxRefs names, an index holding some of the names                       *)
(***************************************************************************)
MaxRefs == 2

RefNames == {TagFfa, TagPvE, TagOld}
RefLists == UNION {[1..n -> RefNames] : n \in 0..MaxRefs}

\* the index of a destination collection listing items with these slugs
RefIndex(slugs) ==
    getAllWebflowMapTags([i \in DOMAIN slugs |->
        [id |-> IdOf(i), lastUpdated |-> <<1>>, lastPublished |-> <<1>>,
         fieldData |-> [name |-> toUpperCase(slugs[i]), slug |-> slugs[i]]]])

RefIndexes == {RefIndex(slugs) : slugs \in SubSeqsOf(<<TagOld, TagPvE, TagFfa>>)}

InitResolve ==
    /\ NoRun
    /\ imageHashesCache = emptyCache
    /\ cacheFile = <<>>
    /\ \E l1 \in RefLists, l2 \in RefLists, refs \in RefIndexes,
          coll \in {"tags", "terrains"}, dr \in BOOLEAN :
           LET Info(rowyId, l) ==
                   [rowyId      |-> rowyId,
                    mapTags     |-> IF coll = "tags" THEN l ELSE <<TagFfa>>,
                    mapTerrains |-> IF coll = "terrains" THEN l ELSE <<TerrainMud>>]
           IN  pure = [fn       |-> "resolveItemRefsInMapInfos",
                       mapInfos |-> <<[k |-> RowX, v |-> Info(RowX, l1)],
                                      [k |-> RowY, v |-> Info(RowY, l2)]>>,
                       coll     |-> coll,
                       refs     |-> refs,
                       dryRun   |-> dr,
                       applied  |-> FALSE,
                       result   |-> [throws |-> FALSE, mapInfos |-> <<>>]]

\* resolveItemRefsInMapInfos(mapInfos, field, refs, dryRun)
ApplyResolveItemRefs ==
    /\ pure # <<>> /\ pure.fn = "resolveItemRefsInMapInfos" /\ ~pure.applied
    /\ pure' = [pure EXCEPT !.applied = TRUE,
                            !.result = resolveItemRefs(pure.mapInfos, pure.coll,
                                                       pure.refs, pure.dryRun)]
    /\ UNCHANGED <<pureVars, hashVars, pLimit>>

NextResolve == ApplyResolveItemRefs

SpecResolve == InitResolve /\ [][NextResolve]_vars

(***************************************************************************)
(* getAllWebflowMapTags / getAllWebflowMapTerrains on the items listed: up *)
(* to MaxListed items, slugs repeated or not                               *)
(***************************************************************************)
MaxListed == 3

ListedFields ==
    {[name |-> n, slug |-> sl] : n \in {TagFfa, toUpperCase(TagFfa)}, sl \in {TagFfa, TagOld}}

Listings ==
    UNION {{[i \in 1..n |-> [id |-> IdOf(i), lastUpdated |-> <<1>>,
                             lastPublished |-> <<1>>, fieldData |-> fd[i]]] :
                fd \in [1..n -> ListedFields]} : n \in 0..MaxListed}

InitIndex ==
    /\ NoRun
    /\ imageHashesCache = emptyCache
    /\ cacheFile = <<>>
    /\ \E its \in Listings :
           pure = [fn |-> "getAllWebflowMapTags", items |-> its,
                   applied |-> FALSE, result |-> <<>>]

\* new Map(tags.map(tag => [tag.slug, tag]))
ApplyGetAllWebflowMapTags ==
    /\ pure # <<>> /\ pure.fn = "getAllWebflowMapTags" /\ ~pure.applied
    /\ pure' = [pure EXCEPT !.applied = TRUE,
                            !.result = getAllWebflowMapTags(pure.items)]
    /\ UNCHANGED <<pureVars, hashVars, pLimit>>

NextIndex == ApplyGetAllWebflowMapTags

SpecIndex == InitIndex /\ [][NextIndex]_vars

(***************************************************************************)
(* isWebflowMapInfoEqual on its own, next to the runs of syncCommand: the  *)
(* two records are a record with every kind of value and records that      *)
(* differ from it in one field.                                            *)
(***************************************************************************)
EqualBase ==
    [name               |-> Str(<<"M">>),
     rowyId             |-> RowX,
     minimapUrl         |-> <<"imagor", "p1">>,
     minimapThumbUrl    |-> <<"imagor", "p2">>,
     downloadUrl        |-> Str(<<"u">>),
     width              |-> Num(8),
     height             |-> Num(4),
     mapSize            |-> Num(32),
     title              |-> null,
     description        |-> Str(<<"d">>),
     author             |-> Str(<<"a">>),
     bgImageUrl         |-> <<>>,
     perspectiveShotUrl |-> <<"imagor", "p3">>,
     moreImagesUrl      |-> << <<"imagor", "p1">>, <<"imagor", "p2">> >>,
     windMin            |-> Num(0),
     windMax            |-> Num(20),
     tidalStrength      |-> null,
     teamCount          |-> Num(2),
     maxPlayers         |-> Num(8),
     textureMapUrl      |-> <<"imagor", "p1">>,
     heightMapUrl       |-> <<"imagor", "p2">>,
     metalMapUrl        |-> <<"imagor", "p3">>,
     mapTags            |-> <<IdOf(1), IdOf(2)>>,
     mapTerrains        |-> <<IdOf(3)>>]

ScalarFields ==
    {"name", "rowyId", "downloadUrl", "width", "height", "mapSize", "title",
     "description", "author", "windMin", "windMax", "tidalStrength", "teamCount",
     "maxPlayers"}

ImageFields ==
    {"minimapUrl", "minimapThumbUrl", "bgImageUrl", "perspectiveShotUrl",
     "textureMapUrl", "heightMapUrl", "metalMapUrl"}

\* the values a field is given in place of the one in EqualBase
OtherValues(field) ==
    CASE field = "rowyId" -> {RowY}
      [] field \in ScalarFields \ {"rowyId"} -> {Str(<<"z">>), Num(7), null}
      [] field \in ImageFields -> {<<>>, <<"cdn", "p1">>, <<"cdn", "p2">>}
      [] field = "moreImagesUrl" ->
             { << <<"imagor", "p2">>, <<"imagor", "p1">> >>,
               << <<"cdn", "p2">>, <<"cdn", "p1">> >>,
               << <<"imagor", "p1">>, <<"imagor", "p1">> >>,
               << <<"imagor", "p1">> >>,
               <<>> }
      [] field = "mapTags" -> {<<IdOf(2), IdOf(1)>>, <<IdOf(1)>>, <<IdOf(1), IdOf(1), IdOf(2)>>}
      [] field = "mapTerrains" -> {<<IdOf(4)>>, <<>>}

EqualRecords ==
    {EqualBase} \cup
    UNION {{[EqualBase EXCEPT ![field] = v] : v \in OtherValues(field)} :
               field \in DOMAIN EqualBase}

InitEqual ==
    \/ Init
    \/ /\ NoRun
       /\ imageHashesCache \in ImageCaches
       /\ cacheFile = savedFile(imageHashesCache)
       /\ \E a \in EqualRecords, b \in EqualRecords :
              pure = [fn |-> "isWebflowMapInfoEqual", a |-> a, b |-> b,
                      applied |-> FALSE, result |-> FALSE]

\* await isWebflowMapInfoEqual(a, b)
ApplyIsWebflowMapInfoEqual ==
    /\ pure # <<>> /\ pure.fn = "isWebflowMapInfoEqual" /\ ~pure.applied
    /\ pure' = [pure EXCEPT !.applied = TRUE,
                            !.result = isWebflowMapInfoEqual(pure.a, pure.b)]
    /\ Hashed(isWebflowMapInfoEqualUrls(pure.a, pure.b))
    /\ UNCHANGED <<pureVars, pLimit>>

NextEqual == Next \/ ApplyIsWebflowMapInfoEqual

SpecEqual == InitEqual /\ [][NextEqual]_vars

(***************************************************************************)
(* buildWebflowInfo on its own: source lists of one and two maps, each map *)
(* complete or with one thing missing                                      *)
(***************************************************************************)
BuildKinds ==
    {"complete", "noCdnEntry", "noHeight", "noMetal", "noTexture", "noMirror",
     "nameUndefined", "nameEmpty", "authorEmpty", "widthUndefined",
     "windMaxUndefined", "descriptionEmpty", "teamCountZero", "tidalNumber",
     "tagSpace", "tagUnderscore", "tagsOneSlug"}

\* two tag names with one slug
TagSpace == <<"a", " ", "b">>
TagUnderscore == <<"a", "_", "b">>

\* the map `rowyId` of the source list, its CDN entry if it has one, and its
\* metadata
BuildCase(rowyId, kind) ==
    LET base == SourceMap(rowyId, "p1", Str(<<"a">>))
        meta == SourceMeta(rowyId, <<TagFfa>>, CompleteFiles)
        Files(fs) == [meta EXCEPT !.extractedFiles = fs]
    IN  [map  |-> CASE kind = "nameUndefined"    -> [base EXCEPT !.displayName = undefined]
                    [] kind = "nameEmpty"        -> [base EXCEPT !.displayName = Str(<<>>)]
                    [] kind = "authorEmpty"      -> [base EXCEPT !.author = Str(<<>>)]
                    [] kind = "descriptionEmpty" -> [base EXCEPT !.description = Str(<<>>)]
                    [] kind = "teamCountZero"    -> [base EXCEPT !.teamCount = Num(0)]
                    [] OTHER                     -> base,
         cdn  |-> CASE kind = "noCdnEntry" -> <<>>
                    [] kind = "noMirror"   -> <<[mirrors |-> <<>>]>>
                    [] OTHER               -> <<SourceCdn>>,
         meta |-> CASE kind = "noHeight"  -> Files(<<"texture.jpg", "metal.png">>)
                    [] kind = "noMetal"   -> Files(<<"texture.jpg", "height.png">>)
                    [] kind = "noTexture" -> Files(<<"height.png", "metal.png">>)
                    [] kind = "widthUndefined" ->
                           [meta EXCEPT !.derivedInfo.width = undefined]
                    [] kind = "windMaxUndefined" ->
                           [meta EXCEPT !.derivedInfo.windMax = undefined]
                    [] kind = "tidalNumber" ->
                           [meta EXCEPT !.derivedInfo.tidalStrength = Num(0)]
                    [] kind = "tagSpace" ->
                           [meta EXCEPT !.derivedInfo.tags = <<TagSpace>>]
                    [] kind = "tagUnderscore" ->
                           [meta EXCEPT !.derivedInfo.tags = <<TagUnderscore, TagFfa>>]
                    [] kind = "tagsOneSlug" ->
                           [meta EXCEPT !.derivedInfo.tags =
                                            <<TagFfa, TagUnderscore, TagSpace>>]
                    [] OTHER -> meta]

BuildInputs ==
    {<<BuildCase(RowX, k)>> : k \in BuildKinds}
        \cup {<<BuildCase(RowX, k), BuildCase(RowY, l)>> : k \in BuildKinds, l \in BuildKinds}

InitBuild ==
    /\ NoRun
    /\ imageHashesCache = emptyCache
    /\ cacheFile = <<>>
    /\ \E in \in BuildInputs :
           pure = [fn           |-> "buildWebflowInfo",
                   maps         |-> [i \in DOMAIN in |-> in[i].map],
                   cdnInfo      |-> MapFromEntries(Flatten([i \in DOMAIN in |->
                                        [j \in DOMAIN in[i].cdn |->
                                            [k |-> in[i].map.springName,
                                             v |-> in[i].cdn[j]]]])),
                   mapsMetadata |-> MapFromEntries([i \in DOMAIN in |->
                                        [k |-> in[i].map.rowyId, v |-> in[i].meta]]),
                   applied      |-> FALSE,
                   result       |-> [throws |-> FALSE, mapInfo |-> <<>>,
                                     allMapTags |-> <<>>]]

\* await buildWebflowInfo(maps, cdnInfo, mapsMetadata)
ApplyBuildWebflowInfo ==
    /\ pure # <<>> /\ pure.fn = "buildWebflowInfo" /\ ~pure.applied
    /\ pure' = [pure EXCEPT !.applied = TRUE,
                            !.result = buildWebflowInfo(pure.maps, pure.cdnInfo,
                                                        pure.mapsMetadata)]
    /\ UNCHANGED <<pureVars, hashVars, pLimit>>

NextBuild == ApplyBuildWebflowInfo

SpecBuild == InitBuild /\ [][NextBuild]_vars

(***************************************************************************)
(* Claims                                                                  *)
(***************************************************************************)
Mutations == {"createItem", "updateItem", "deleteItem"}

LogOf(methods, colls) ==
    {i \in DOMAIN log : log[i].method \in methods /\ log[i].coll \in colls}

\* C1 (as claimed): a sync repeated after a completed non-dry-run sync, on the
\* same source, issues no createItem, updateItem or deleteItem call.
C1_SecondRunIssuesNoMutation ==
    runNo = 2 => LogOf(Mutations, Collections) = {}

\* the destination's keys and items against the source of the run
RemoteKeys(coll) ==
    {IF coll = "maps" THEN remote[coll][i].fieldData.rowyid
     ELSE remote[coll][i].fieldData.slug : i \in DOMAIN remote[coll]}

SourceOf(coll) == IF coll = "maps" THEN rowyMapsInfo ELSE SrcOf(coll)

ItemEqualsSource(coll, item) ==
    IF coll = "maps"
    THEN /\ MapHas(rowyMapsInfo, item.fieldData.rowyid)
         /\ isWebflowMapInfoEqual(MapGet(rowyMapsInfo, item.fieldData.rowyid),
                                  WebflowMapInfo(item))
    ELSE /\ MapHas(SrcOf(coll), item.fieldData.slug)
         /\ isWebsiteMapTagEqual(MapGet(SrcOf(coll), item.fieldData.slug),
                                 WebflowMapTag(item))

Converged(coll) ==
    /\ RemoteKeys(coll) = MapKeys(SourceOf(coll))
    /\ \A i \in DOMAIN remote[coll] : ItemEqualsSource(coll, remote[coll][i])

\* C3 (as claimed): a non-dry-run sync that completes leaves every collection
\* with the source's keys and every item equal to its source item.
C3_CompletedSyncConverges ==
    (Done /\ ~dryRun) => \A coll \in Collections : Converged(coll)

\* C9 (as claimed): after a completed non-dry-run sync every tag and terrain
\* reference of every destination map names an existing destination item.
C9_NoDanglingReference ==
    (Done /\ ~dryRun) =>
        \A i \in DOMAIN remote.maps :
            /\ Range(remote.maps[i].fieldData.tags) \subseteq ItemIds(remote.tags)
            /\ Range(remote.maps[i].fieldData.terrains) \subseteq ItemIds(remote.terrains)

Vocabularies == {"tags", "terrains"}
Writes == {"createItem", "updateItem"}

\* C2: in a dry run no step issues a createItem, updateItem, deleteItem or
\* publishItem call, and no step changes the destination's collections.
C2_DryRunPurity ==
    [][dryRun => /\ remote' = remote
                 /\ \A i \in DOMAIN log' :
                        log'[i].method \notin Mutations \cup {"publishItem"}]_vars

\* a finished dry run that had additions and removals to report
C2_DryRunWithDiffs ==
    /\ dryRun /\ Done
    /\ RemoteKeys("maps") \ MapKeys(rowyMapsInfo) # {}
    /\ MapKeys(rowyMapsInfo) \ RemoteKeys("maps") # {}
    /\ RemoteKeys("tags") # MapKeys(rowyTagsInfo)

\* the destination maps that reference the item a deleteItem call names
ReferencedBy(id) ==
    {i \in DOMAIN remote.maps :
        id \in Range(remote.maps[i].fieldData.tags)
                  \cup Range(remote.maps[i].fieldData.terrains)}

\* C4 (as claimed): no deleteItem call on tags or terrains precedes a
\* createItem or updateItem call on maps, and no tag or terrain is deleted
\* while a destination map still references it.
C4_RemovalAfterMapsDropReference ==
    /\ \A i \in LogOf({"deleteItem"}, Vocabularies), j \in LogOf(Writes, {"maps"}) : j < i
    /\ \A k \in DOMAIN inflight :
          (inflight[k].method = "deleteItem" /\ inflight[k].coll \in Vocabularies)
              => ReferencedBy(inflight[k].arg.id) = {}

\* the ordering half of C4 on its own
C4_RemovalsAfterMapWrites ==
    \A i \in LogOf({"deleteItem"}, Vocabularies), j \in LogOf(Writes, {"maps"}) : j < i

C4_RemovalAfterMapWrite ==
    /\ LogOf({"deleteItem"}, Vocabularies) # {}
    /\ LogOf(Writes, {"maps"}) # {}

\* every reference of every canonical map record is a destination identifier
ReferencesResolved ==
    \A i \in DOMAIN rowyMapsInfo : \A coll \in Vocabularies :
        Range(RefsField(rowyMapsInfo[i].v, coll)) \subseteq ItemIds(remote[coll])

\* C5: every createItem/updateItem call on tags and terrains precedes every
\* createItem, updateItem and deleteItem call on maps, and from the first such
\* call on maps the map records hold destination identifiers, not names.
C5_VocabularyBeforeMaps ==
    /\ \A i \in LogOf(Writes, Vocabularies), j \in LogOf(Mutations, {"maps"}) : i < j
    /\ LogOf(Mutations, {"maps"}) # {} => ReferencesResolved

C5_MapsAfterVocabulary ==
    /\ LogOf(Writes, {"tags"}) # {}
    /\ LogOf(Writes, {"terrains"}) # {}
    /\ LogOf(Mutations, {"maps"}) # {}
    /\ \E i \in DOMAIN rowyMapsInfo : rowyMapsInfo[i].v.mapTags # <<>>

\* C6 (as claimed): in each collection every publishItem call follows every
\* createItem, updateItem and deleteItem call of that collection.
C6_PublishAfterMutations ==
    \A coll \in Collections :
        \A i \in LogOf(Mutations, {coll}), j \in LogOf({"publishItem"}, {coll}) : i < j

\* C6 (amended): every publishItem call of a collection follows every
\* createItem and updateItem call of that collection; on maps it follows every
\* deleteItem call too, on tags and terrains it precedes every deleteItem call.
C6_PublishAfterWrites ==
    /\ \A coll \in Collections :
          \A i \in LogOf(Writes, {coll}), j \in LogOf({"publishItem"}, {coll}) : i < j
    /\ \A i \in LogOf({"deleteItem"}, {"maps"}), j \in LogOf({"publishItem"}, {"maps"}) :
          i < j
    /\ \A coll \in Vocabularies :
          \A i \in LogOf({"deleteItem"}, {coll}), j \in LogOf({"publishItem"}, {coll}) :
              j < i

C6_PublishedThenRemoved ==
    /\ \E coll \in Vocabularies :
          /\ LogOf(Writes, {coll}) # {}
          /\ LogOf({"publishItem"}, {coll}) # {}
          /\ LogOf({"deleteItem"}, {coll}) # {}
    /\ LogOf({"deleteItem"}, {"maps"}) # {}
    /\ LogOf(Writes, {"maps"}) # {}
    /\ LogOf({"publishItem"}, {"maps"}) # {}

Throttled == Mutations \cup {"publishItem", "listItems"}

\* C8: every createItem, updateItem, deleteItem, publishItem and listItems
\* call goes through the limiter, and at most one of them is in flight.
C8_ThrottleSerialization ==
    /\ \A i \in LogOf(Throttled, Collections) : log[i].via = "limiter"
    /\ Cardinality({k \in DOMAIN inflight : inflight[k].method \in Throttled}) <= 1

\* a mutation in flight while two equality checks are pending
C8_CallDuringPendingChecks ==
    /\ \E k \in DOMAIN inflight : inflight[k].method \in Mutations
    /\ Cardinality({k \in DOMAIN updatesP : ~updatesP[k].done}) >= 2

\* the identifiers sent by the publishItem calls of a collection, in order
PublishedIds(coll) ==
    LET IsPublish(c) == c.method = "publishItem" /\ c.coll = coll
        calls == SelectSeq(log, IsPublish)
    IN  Flatten([k \in DOMAIN calls |-> calls[k].arg.itemIds])

\* lastPublished missing, or strictly older than lastUpdated
StaleOrUnpublished(e) ==
    \/ e.v.item.lastPublished = <<>>
    \/ /\ e.v.item.lastUpdated # <<>>
       /\ e.v.item.lastPublished[1] < e.v.item.lastUpdated[1]

SelectedIds(coll) ==
    LET sel == SelectSeq(dest[coll], StaleOrUnpublished)
    IN  [k \in DOMAIN sel |-> sel[k].v.item.id]

\* C7: the publishItem calls of a collection carry between 1 and 100
\* identifiers each; together they carry, once each and in order, the
\* identifiers of the items of the in-memory set whose lastPublished is missing
\* or strictly older than lastUpdated, all of them once the step is over; a
\* dry run makes no publishItem call.
C7_PublishSelection ==
    \A coll \in Collections :
        LET sent == PublishedIds(coll)
            sel  == SelectedIds(coll)
        IN  /\ \A i \in LogOf({"publishItem"}, {coll}) :
                   Len(log[i].arg.itemIds) \in 1..100
            /\ dryRun => sent = <<>>
            /\ Len(sent) <= Len(sel) /\ sent = SubSeq(sel, 1, Len(sent))
            /\ \A a, b \in DOMAIN sent : sent[a] = sent[b] => a = b
            /\ (pc > PublishIndex(coll) /\ ~dryRun) => sent = sel

\* more than a hundred items selected and some left out, all calls made
C7_TwoChunksSomeExcluded ==
    \E coll \in Collections :
        /\ pc > PublishIndex(coll) /\ ~dryRun
        /\ Cardinality(LogOf({"publishItem"}, {coll})) >= 2
        /\ Len(SelectedIds(coll)) < Len(dest[coll])

\* C10: pickImage(url, base) returns base.fileId when base is given and the
\* digests of url and base.url are equal, and url otherwise.
C10_PickImageReusesAsset ==
    (pure # <<>> /\ pure.fn = "pickImage" /\ pure.applied) =>
        pure.result =
            IF pure.base # <<>> /\ getImageHash(pure.url) = getImageHash(pure.base[1].url)
            THEN pure.base[1].fileId
            ELSE pure.url

\* the same bytes behind another URL: the asset is reused
C10_SameBytesOtherUrl ==
    /\ pure # <<>> /\ pure.fn = "pickImage" /\ pure.applied
    /\ pure.base # <<>> /\ pure.url # pure.base[1].url
    /\ pure.result = pure.base[1].fileId

\* the existing assets whose digest is the digest of url
MatchingAssets(url, base) ==
    {j \in DOMAIN base : getImageHash(base[j].url) = getImageHash(url)}

PickedByDigest(urls, base, res) ==
    /\ Len(res) = Len(urls)
    /\ \A i \in DOMAIN urls :
          IF MatchingAssets(urls[i], base) = {}
          THEN res[i] = urls[i]
          ELSE \E j \in MatchingAssets(urls[i], base) : res[i] = base[j].fileId

\* C11: pickImages maps each desired URL to the fileId of an existing asset
\* with the URL's digest when there is one and to the URL otherwise, whichever
\* way the existing assets are ordered; when the assets' digests are distinct
\* the two orders give the same list.
C11_PickImagesMatchesByDigest ==
    (pure # <<>> /\ pure.fn = "pickImages" /\ pure.applied) =>
        /\ PickedByDigest(pure.urls, pure.base, pure.result)
        /\ PickedByDigest(pure.urls, Reverse(pure.base), pure.resultReversed)
        /\ (\A i, j \in DOMAIN pure.base :
               getImageHash(pure.base[i].url) = getImageHash(pure.base[j].url) => i = j)
              => pure.result = pure.resultReversed

\* two desired URLs matched with two assets listed the other way round
C11_MatchedAcrossPositions ==
    /\ pure # <<>> /\ pure.fn = "pickImages" /\ pure.applied
    /\ Len(pure.urls) = 2 /\ Len(pure.base) = 2
    /\ pure.result = <<pure.base[2].fileId, pure.base[1].fileId>>
    /\ pure.result = pure.resultReversed

\* the number of times digest h occurs among the digests of urls
DigestCount(urls, h) == Cardinality({i \in DOMAIN urls : getImageHash(urls[i]) = h})

\* C13: sameImage is true exactly when the two digests are equal, an empty URL
\* being equal to an empty URL only; sameImages is true exactly when the lists
\* have the same length and the same digests the same number of times.
C13_ImageEqualityHelpers ==
    /\ (pure # <<>> /\ pure.fn = "sameImage" /\ pure.applied) =>
          /\ pure.result = (getImageHash(pure.url1) = getImageHash(pure.url2))
          /\ pure.url1 = <<>> => (pure.result = (pure.url2 = <<>>))
          /\ pure.url2 = <<>> => (pure.result = (pure.url1 = <<>>))
    /\ (pure # <<>> /\ pure.fn = "sameImages" /\ pure.applied) =>
          pure.result =
              /\ Len(pure.urls1) = Len(pure.urls2)
              /\ \A i \in DOMAIN pure.urls1 :
                    DigestCount(pure.urls1, getImageHash(pure.urls1[i]))
                        = DigestCount(pure.urls2, getImageHash(pure.urls1[i]))

\* the same two images listed in another order are the same images
C13_SameImagesReordered ==
    /\ pure # <<>> /\ pure.fn = "sameImages" /\ pure.applied
    /\ Len(pure.urls1) = 2 /\ pure.urls1[1] # pure.urls1[2]
    /\ pure.urls2 = Reverse(pure.urls1)
    /\ pure.result

SlugChars == Range(LowerAlpha) \cup Range(DigitChars) \cup {"-"}

\* C16: slugFromName applied to its own result gives that result, and the
\* result holds only characters of a-z, 0-9 and '-'.
C16_SlugIdempotent ==
    (pure # <<>> /\ pure.fn = "slugFromName" /\ pure.applied) =>
        /\ pure.again = pure.result
        /\ Range(pure.result) \subseteq SlugChars

\* a name that is not its own slug
C16_SlugOfMixedName ==
    /\ pure # <<>> /\ pure.fn = "slugFromName" /\ pure.applied
    /\ pure.result # pure.name /\ pure.result # <<>>
    /\ \E i \in DOMAIN pure.name : pure.name[i] \notin SlugChars \cup {".", " ", "_"}
    /\ \E i \in DOMAIN pure.name : pure.name[i] \in Range(UpperAlpha)

\* C17 (as claimed): the slug neither starts nor ends with '-' and has no two
\* consecutive '-'.
C17_SlugHasNoDashRuns ==
    (pure # <<>> /\ pure.fn = "slugFromName" /\ pure.applied /\ pure.result # <<>>) =>
        /\ pure.result[1] # "-"
        /\ pure.result[Len(pure.result)] # "-"
        /\ \A i \in 1..(Len(pure.result) - 1) :
              ~(pure.result[i] = "-" /\ pure.result[i + 1] = "-")

\* the characters of the name that leave something in the slug
SlugSource(name) ==
    LET Leaves(c) == c \in SlugChars \cup Range(UpperAlpha) \cup {".", " ", "_"}
    IN  SelectSeq(name, Leaves)

\* C17 (amended): the slug has one character for each letter, digit, '.', ' ',
\* '_' and '-' of the name, in order: the letter in lower case, the digit, and
\* '-' for each of the other four; nothing is collapsed or stripped.
C17_SlugCharForChar ==
    (pure # <<>> /\ pure.fn = "slugFromName" /\ pure.applied) =>
        LET from == SlugSource(pure.name)
        IN  /\ Len(pure.result) = Len(from)
            /\ \A i \in DOMAIN from :
                  pure.result[i] =
                      IF from[i] \in {".", " ", "_", "-"} THEN "-"
                      ELSE toLowerCaseChar(from[i])

\* a slug that starts with '-', ends with '-' and has '--' inside
C17_SlugWithDashRuns ==
    /\ pure # <<>> /\ pure.fn = "slugFromName" /\ pure.applied
    /\ Len(pure.result) = 3
    /\ \A i \in 1..3 : pure.result[i] = "-"
    /\ \E i \in 1..3 : pure.name[i] # "-"

\* the calls of the batches that have to download: the URL is not '', was not
\* in the cache at the start, and no earlier batch asked for it
MustDownload(batches, cache0) ==
    {<<j, i>> \in {<<j, i>> \in (DOMAIN batches) \X (1..MaxCalls) : i \in DOMAIN batches[j]} :
        /\ batches[j][i] # <<>>
        /\ batches[j][i] \notin DOMAIN cache0
        /\ \A k \in 1..(j - 1) : batches[j][i] \notin Range(batches[k])}

AllReturned == pure.batch = Len(pure.batches) /\ pure.pending = 0

\* C18: getImageHash returns '' for an empty URL and the stored digest for a
\* URL in the cache, in both cases without a download; for any other URL it
\* downloads the resource, stores its digest under the URL and returns it,
\* so that a later request for the same URL is answered from the cache.
C18_CacheLookup ==
    (pure # <<>> /\ pure.fn = "getImageHash") =>
        /\ \A e \in pure.returned :
            /\ e.url = <<>> => e.hash = <<>> /\ e.from = "empty"
            /\ (e.url # <<>> /\ e.url \in DOMAIN pure.cache0) =>
                   e.hash = pure.cache0[e.url] /\ e.from = "cache"
            /\ (e.url # <<>> /\ e.url \notin DOMAIN pure.cache0) =>
                   /\ e.hash = digest(e.url)
                   /\ e.url \in DOMAIN imageHashesCache
                   /\ imageHashesCache[e.url] = e.hash
            /\ \A f \in pure.returned :
                   (f.batch < e.batch /\ f.url = e.url /\ e.url # <<>>) =>
                       e.from = "cache" /\ e.hash = f.hash
        /\ pure.downloads <= Cardinality(MustDownload(pure.batches, pure.cache0))
        /\ AllReturned =>
               pure.downloads = Cardinality(MustDownload(pure.batches, pure.cache0))

\* a URL was downloaded, and a later request for it was answered from the
\* cache; a request for '' returned as well
C18_DownloadedThenCached ==
    /\ pure # <<>> /\ pure.fn = "getImageHash"
    /\ \E e, f \in pure.returned :
           /\ f.batch < e.batch /\ f.url = e.url
           /\ f.from = "download" /\ e.from = "cache"
    /\ \E e \in pure.returned : e.from = "empty"

\* C19: at most 20 downloads are in progress at any time
C19_AtMostTwentyDownloads == BagCardinality(pLimit.active) <= 20

\* 20 downloads are in progress and more are waiting for their turn
C19_TwentyRunningOthersQueued ==
    BagCardinality(pLimit.active) = 20 /\ Len(pLimit.queue) > 1

\* C20: the cache is saved when the 30th digest since the last save is
\* stored, and the counter of new digests is then reset.
C20_SavedAtThirtiethDigest ==
    /\ newHashes < 30
    /\ (pure # <<>> /\ pure.fn = "getImageHash" /\ pure.stored >= 30) => pure.saves >= 1

\* what the equality of two map records is claimed to be
RecordsEqual(a, b) ==
    /\ \A f \in ImageFields : getImageHash(a[f]) = getImageHash(b[f])
    /\ Len(a.moreImagesUrl) = Len(b.moreImagesUrl)
    /\ \A i \in DOMAIN a.moreImagesUrl :
           DigestCount(a.moreImagesUrl, getImageHash(a.moreImagesUrl[i]))
               = DigestCount(b.moreImagesUrl, getImageHash(a.moreImagesUrl[i]))
    /\ \A f \in ScalarFields : a[f] = b[f]
    /\ a.mapTags = b.mapTags
    /\ a.mapTerrains = b.mapTerrains

UpdatedIds == {log[i].arg.id : i \in LogOf({"updateItem"}, {"maps"})}

CdnEntryMissing(i) == ~MapHas(pure.cdnInfo, pure.maps[i].springName)

RequiredFileAbsent(i) ==
    \E f \in {"height.png", "metal.png", "texture.jpg"} :
        \A j \in DOMAIN MapGet(pure.mapsMetadata, pure.maps[i].rowyId).extractedFiles :
            MapGet(pure.mapsMetadata, pure.maps[i].rowyId).extractedFiles[j] # f

BuiltRecord(i) ==
    websiteMapInfo(pure.maps[i], MapGet(pure.cdnInfo, pure.maps[i].springName),
                   MapGet(pure.mapsMetadata, pure.maps[i].rowyId))

BuiltFieldMissing(i) ==
    /\ ~CdnEntryMissing(i)
    /\ \E f \in ScalarFields \ {"rowyId"} :
           BuiltRecord(i)[f] = undefined \/ BuiltRecord(i)[f] = Str(<<>>)

Rejected(i) == CdnEntryMissing(i) \/ RequiredFileAbsent(i) \/ BuiltFieldMissing(i)

\* C14: buildWebflowInfo throws and returns no record at all if, for some map
\* of the source list, the CDN entry of its springName is missing, or one of
\* height.png, metal.png, texture.jpg is not among its extractedFiles, or a
\* field of its built record is undefined or ''; on a list without such a map
\* it returns one record a map, also when a numeric field is zero or a
\* nullable field is null.
C14_BuilderRejection ==
    (pure # <<>> /\ pure.fn = "buildWebflowInfo" /\ pure.applied) =>
        IF \E i \in DOMAIN pure.maps : Rejected(i)
        THEN pure.result.throws /\ pure.result.mapInfo = <<>>
        ELSE /\ ~pure.result.throws
             /\ \A i \in DOMAIN pure.maps :
                    /\ MapHas(pure.result.mapInfo, pure.maps[i].rowyId)
                    /\ MapGet(pure.result.mapInfo, pure.maps[i].rowyId) = BuiltRecord(i)

\* a list of a complete map, with a zero and a null in its record, and a map
\* without metal.png: no record is returned
C14_OneMapLacksFile ==
    /\ pure # <<>> /\ pure.fn = "buildWebflowInfo" /\ pure.applied
    /\ Len(pure.maps) = 2
    /\ ~Rejected(1) /\ BuiltRecord(1).windMin = Num(0) /\ BuiltRecord(1).title = null
    /\ ~CdnEntryMissing(2) /\ RequiredFileAbsent(2) /\ ~BuiltFieldMissing(2)
    /\ pure.result.throws /\ pure.result.mapInfo = <<>>

\* a map of the source list lacks one of the required files
LacksRequiredFile ==
    \E i \in DOMAIN maps :
        /\ MapHas(mapsMetadata, maps[i].rowyId)
        /\ \E f \in {"height.png", "metal.png", "texture.jpg"} :
               \A j \in DOMAIN MapGet(mapsMetadata, maps[i].rowyId).extractedFiles :
                   MapGet(mapsMetadata, maps[i].rowyId).extractedFiles[j] # f

\* C15 (as claimed): when a source map lacks a required file, the sync fails
\* before any call to the destination has been made.
C15_FailsBeforeAnyRemoteCall ==
    LacksRequiredFile => log = <<>>

\* C15 (amended): when a source map lacks a required file, the sync never
\* completes and issues no createItem, updateItem, deleteItem or publishItem
\* call; the calls made before it fails are the reads of the collections and
\* of their items, and no record has been built when it fails.
C15_FailsBeforeAnyMutation ==
    LacksRequiredFile =>
        /\ ~Done
        /\ LogOf(Mutations \cup {"publishItem"}, Collections) = {}
        /\ Failed => rowyMapsInfo = <<>>

\* the sync has failed on a map without metal.png, after it has read the
\* destination's collections and items
C15_FailedAfterReads ==
    /\ LacksRequiredFile
    /\ Failed
    /\ log # <<>>
    /\ \A i \in DOMAIN log : log[i].method \in {"get", "listItems"}

\* the cache object has been constructed from the file pure.file0
Constructed == pure # <<>> /\ pure.fn = "ImageHashesCache" /\ pure.at # "new"

\* C21: a cache constructed from a file of another version starts with no
\* entry at all; one constructed when reading or parsing the file fails
\* starts empty, has logged a warning and the process goes on; a save that
\* fails logs a warning and the process ends as it would have.
C21_CacheLoad ==
    Constructed =>
        /\ pure.at # "crashed"
        /\ (~loadThrows(pure.file0) /\ pure.file0[1].version # imageHashesCacheVersion)
               => pure.loaded = emptyCache
        /\ loadThrows(pure.file0) => pure.loaded = emptyCache /\ pure.warnings >= 1
        /\ pure.saveFailed =>
               /\ pure.at = "exited"
               /\ pure.warnings = 1 + (IF loadThrows(pure.file0) THEN 1 ELSE 0)

\* a file of another version with an entry in it has been read: nothing of
\* it is in the cache, and the save at the end has failed
C21_OtherVersionDiscarded ==
    /\ Constructed
    /\ ~loadThrows(pure.file0)
    /\ pure.file0[1].version # imageHashesCacheVersion
    /\ DOMAIN pure.file0[1].entries # {}
    /\ pure.loaded = emptyCache
    /\ pure.saveFailed /\ pure.at = "exited"

\* the list of names of record i given to resolveItemRefsInMapInfos, and the
\* list it has afterwards
RefsBefore(i) == RefsField(pure.mapInfos[i].v, pure.coll)
RefsAfter(i) == RefsField(pure.result.mapInfos[i].v, pure.coll)

\* the name is a key of the index
InIndex(name) == \E e \in DOMAIN pure.refs : pure.refs[e].k = name
IdInIndex(name) ==
    pure.refs[CHOOSE e \in DOMAIN pure.refs : pure.refs[e].k = name].v.item.id

\* C22: resolveItemRefsInMapInfos throws when dryRun is false and a name of
\* some record's list is not in the index; otherwise every list keeps its
\* length and order, each name that is in the index replaced by the id of
\* its item and, in a dry run, each name that is not left as it is.
C22_ResolveItemRefs ==
    (pure # <<>> /\ pure.fn = "resolveItemRefsInMapInfos" /\ pure.applied) =>
        IF ~pure.dryRun /\ \E i \in DOMAIN pure.mapInfos :
                               \E j \in DOMAIN RefsBefore(i) : ~InIndex(RefsBefore(i)[j])
        THEN pure.result.throws
        ELSE /\ ~pure.result.throws
             /\ Len(pure.result.mapInfos) = Len(pure.mapInfos)
             /\ \A i \in DOMAIN pure.mapInfos :
                    /\ Len(RefsAfter(i)) = Len(RefsBefore(i))
                    /\ \A j \in DOMAIN RefsBefore(i) :
                           RefsAfter(i)[j] = IF InIndex(RefsBefore(i)[j])
                                             THEN IdInIndex(RefsBefore(i)[j])
                                             ELSE RefsBefore(i)[j]

\* a dry run has resolved a list of a name that is not in the index followed
\* by one that is: the first is still the name, the second is an id
C22_UnresolvedThenResolved ==
    /\ pure # <<>> /\ pure.fn = "resolveItemRefsInMapInfos" /\ pure.applied
    /\ pure.dryRun
    /\ Len(RefsBefore(1)) = 2
    /\ ~InIndex(RefsBefore(1)[1]) /\ InIndex(RefsBefore(1)[2])
    /\ RefsAfter(1) = <<RefsBefore(1)[1], IdInIndex(RefsBefore(1)[2])>>

\* getAllWebflowMaps has returned and nothing has been written yet
MapsIndexed == Running /\ pc > 2 /\ LogOf(Mutations, Collections) = {}

\* C23 (as claimed): the index getAllWebflowMaps returns has exactly one entry
\* for each listed item: no item is dropped, also when several listed items
\* have the same rowyId.
C23_OneEntryPerListedMap ==
    MapsIndexed =>
        /\ Len(dest.maps) = Len(remote.maps)
        /\ \A i \in DOMAIN remote.maps :
               \E e \in DOMAIN dest.maps : dest.maps[e].v.item.id = remote.maps[i].id

\* C24 (as claimed): every item of the tags or terrains listing is in the
\* index built from it, also when several items have the same slug.
C24_EveryListedItemIndexed ==
    (pure # <<>> /\ pure.fn = "getAllWebflowMapTags" /\ pure.applied) =>
        \A i \in DOMAIN pure.items :
            \E e \in DOMAIN pure.result : pure.result[e].v.item.id = pure.items[i].id

\* C25: when a destination call raises an error the run has failed; the call
\* is the last one of the run: it is not issued again and no call follows it,
\* and no call is left queued or in progress.  When WEBFLOW_COLLECTION_ID or
\* WEBFLOW_API_TOKEN is not set the process exits without any call.
C25_AbortWithoutRetry ==
    /\ raised # <<>> =>
           /\ Failed
           /\ Len(log) = raised[1].at
           /\ log[Len(log)] = raised[1].call
           /\ queue = <<>> /\ inflight = <<>> /\ ~waiting
    /\ ~(env.WEBFLOW_COLLECTION_ID /\ env.WEBFLOW_API_TOKEN) =>
           /\ Started \/ Failed
           /\ log = <<>>

\* the createItem call for a tag has raised an error in a run that had maps
\* to write: the run has failed without a call on the maps collection after
\* its reads
C25_FailedAtTagCreation ==
    /\ raised # <<>>
    /\ raised[1].call.method = "createItem" /\ raised[1].call.coll = "tags"
    /\ Failed
    /\ maps # <<>>
    /\ LogOf(Mutations \cup {"publishItem"}, {"maps"}) = {}

\* the tag names of the source list in the order buildWebflowInfo sees them
TagsSeen ==
    Flatten([i \in DOMAIN pure.maps |->
                MapGet(pure.mapsMetadata, pure.maps[i].rowyId).derivedInfo.tags])

\* C26 (as claimed): the vocabulary has one entry for each slug seen, whose
\* name is the uppercased tag name that was seen first with that slug.
C26_FirstTagNameKept ==
    (pure # <<>> /\ pure.fn = "buildWebflowInfo" /\ pure.applied /\ ~pure.result.throws) =>
        /\ MapKeys(pure.result.allMapTags) = {slugFromName(TagsSeen[i]) : i \in DOMAIN TagsSeen}
        /\ \A e \in DOMAIN pure.result.allMapTags :
               LET slug  == pure.result.allMapTags[e].k
                   first == CHOOSE i \in DOMAIN TagsSeen :
                                /\ slugFromName(TagsSeen[i]) = slug
                                /\ \A j \in 1..(i - 1) : slugFromName(TagsSeen[j]) # slug
               IN  pure.result.allMapTags[e].v =
                       [name |-> toUpperCase(TagsSeen[first]), slug |-> slug]

\* C27 (as claimed): in a non-dry run, once the tag additions have been made,
\* every tag name of every map record is found in the destination tag index:
\* resolveItemRefsInMapInfos does not throw for a tag of the source maps.
C27_TagNamesResolve ==
    (~dryRun /\ At("resolve") /\ Step.coll = "tags") =>
        ~resolveItemRefs(rowyMapsInfo, "tags", dest.tags, dryRun).throws

\* The maps mutation calls of the run that have returned; syncMapsToWebflow
\* awaits each one, so only the last call of the log can be outstanding.
MapCalls == LogOf(Mutations, {"maps"})
Returned(i) == ~(waiting /\ i = Len(log))
PhaseOf(method) ==
    CASE method = "createItem" -> 1
      [] method = "deleteItem" -> 2
      [] method = "updateItem" -> 3

\* the destination set holds, under the rowyId, the item the destination
\* stores now (publishing leaves all but lastPublished alone)
RecordedInDest(rowyId, ids) ==
    /\ MapHas(dest.maps, rowyId)
    /\ LET e == MapGet(dest.maps, rowyId)
       IN  /\ e.rowyId = rowyId
           /\ e.item.id \in ids \cap ItemIds(remote.maps)
           /\ [e.item EXCEPT !.lastPublished = <<>>]
                = [ItemById(remote.maps, e.item.id) EXCEPT !.lastPublished = <<>>]

\* C28: the createItem calls for maps all come before the deleteItem calls
\* for maps, and these before the updateItem calls for maps; a map created
\* or updated is in the in-memory destination set under its rowyId, a map
\* deleted is not in it.
C28_MapPhaseOrder ==
    /\ \A i, j \in MapCalls :
           i < j => PhaseOf(log[i].method) <= PhaseOf(log[j].method)
    /\ \A i \in MapCalls : Returned(i) =>
           CASE log[i].method = "createItem" ->
                    RecordedInDest(log[i].arg.fields.rowyid, ItemIds(remote.maps))
             [] log[i].method = "updateItem" ->
                    RecordedInDest(log[i].arg.fields.rowyid, {log[i].arg.id})
             [] log[i].method = "deleteItem" ->
                    \A k \in DOMAIN dest.maps : dest.maps[k].v.item.id # log[i].arg.id

\* a finished run that created a map, deleted a map and updated a map
C28_CreatedDeletedUpdated ==
    /\ Done
    /\ \A m \in Mutations : LogOf({m}, {"maps"}) # {}

\* The identifiers of the items a createItem or updateItem call of the log
\* wrote: the identifier of the call, or that of the stored item with the
\* rowyid (maps) or slug (tags, terrains) of the created fields.
KeyOf(coll, fields) == IF coll = "maps" THEN fields.rowyid ELSE fields.slug
WrittenIds(i) ==
    IF log[i].method = "updateItem" THEN {log[i].arg.id}
    ELSE {remote[log[i].coll][k].id : k \in
            {n \in DOMAIN remote[log[i].coll] :
                KeyOf(log[i].coll, remote[log[i].coll][n].fieldData)
                    = KeyOf(log[i].coll, log[i].arg.fields)}}

PublishedAfter(i) ==
    UNION {Range(log[j].arg.itemIds) :
             j \in {n \in LogOf({"publishItem"}, {log[i].coll}) : n > i}}

\* C29: when a non-dry run has completed, every item it created or updated,
\* in maps, tags or terrains, is named in a later publishItem call of its
\* collection, and no map it deleted is named in a publishItem call.
C29_ChangedItemsPublished ==
    (Done /\ ~dryRun) =>
        /\ \A i \in LogOf(Writes, Collections) :
               WrittenIds(i) # {} /\ WrittenIds(i) \subseteq PublishedAfter(i)
        /\ \A i \in LogOf({"deleteItem"}, {"maps"}) :
               log[i].arg.id \notin Range(PublishedIds("maps"))

\* a completed non-dry run that created, updated and deleted a map, updated
\* a tag and created a terrain
C29_WroteMapsTagsTerrains ==
    /\ Done /\ ~dryRun
    /\ \A m \in Mutations : LogOf({m}, {"maps"}) # {}
    /\ LogOf({"updateItem"}, {"tags"}) # {}
    /\ LogOf({"createItem"}, {"terrains"}) # {}

\* The collection being listed, the offsets requested so far and the
\* number of requests that have been answered.
ListedColl == IF pc >= ListIndex("terrains") THEN "terrains" ELSE "tags"
ListCalls == SelectSeq(log, LAMBDA c : c.method = "listItems")
ListAnswered == Len(ListCalls) - (IF waiting THEN 1 ELSE 0)
CeilDiv(n, d) == (n + d - 1) \div d

\* C30: the requests of getAllWebflowItems ask for at most 100 items at the
\* offsets 0, 100, 200, ... in this order; while it runs it has gathered the
\* items of the pages answered so far, in listing order; on a collection of n
\* items it ends after ceil(n / 100) + 1 requests and returns the n items,
\* once each and in the order of the collection.
C30_PaginatedListing ==
    LET n == Len(remote[ListedColl])
    IN  /\ \A k \in DOMAIN ListCalls : ListCalls[k].arg = 100 * (k - 1)
        /\ Len(ListCalls) <= CeilDiv(n, 100) + 1
        /\ At("list") =>
               /\ cur = 100 * ListAnswered
               /\ items = SubSeq(remote[ListedColl], 1, Min(n, cur))
        /\ ~At("list") =>
               /\ Len(ListCalls) = CeilDiv(n, 100) + 1
               /\ ~waiting
               /\ Len(dest[ListedColl]) = n
               /\ \A k \in 1..n : dest[ListedColl][k].v.item = remote[ListedColl][k]

\* a listing of more than two full pages has ended
C30_ThreePagesListed ==
    /\ ~At("list")
    /\ Len(remote[ListedColl]) > 200
    /\ Len(dest[ListedColl]) > 200

\* the distinct URLs the getImageHash calls of the run were made for
RequestedUrls == (UNION {Range(pure.batches[j]) : j \in DOMAIN pure.batches}) \ {<<>>}

\* C31 (as claimed): however the getImageHash calls of a run interleave,
\* calls for one URL made together included, there is at most one download
\* and at most one increment of newHashes for each distinct URL.
C31_OneDownloadPerUrl ==
    (pure # <<>> /\ pure.fn = "getImageHash") =>
        /\ pure.downloads <= Cardinality(RequestedUrls)
        /\ pure.stored <= Cardinality(RequestedUrls)
        /\ \A url \in RequestedUrls : CopiesIn(url, pLimit.active) <= 1

\* The calls of the log the destination has carried out: each takes one
\* fresh identifier, so the identifier a createItem call gave its item is
\* the first one of the run plus the number of calls carried out before it.
Carried == {i \in LogOf(Mutations \cup {"publishItem"}, Collections) : Returned(i)}
FirstFreshId == nextId - Cardinality(Carried)
TargetId(i) ==
    IF log[i].method = "createItem"
    THEN IdOf(FirstFreshId + Cardinality({j \in Carried : j < i}))
    ELSE log[i].arg.id

\* C32: no two createItem, updateItem or deleteItem calls of a run are for
\* the same item; an item the run created is still stored, under the key it
\* was created with; no map whose equality check was started is deleted.
C32_OneMutationPerItem ==
    /\ \A i, j \in LogOf(Mutations, Collections) :
           i # j => TargetId(i) # TargetId(j)
    /\ \A i \in LogOf({"createItem"}, Collections) : Returned(i) =>
           /\ TargetId(i) \in ItemIds(remote[log[i].coll])
           /\ KeyOf(log[i].coll, ItemById(remote[log[i].coll], TargetId(i)).fieldData)
                = KeyOf(log[i].coll, log[i].arg.fields)
    /\ \A k \in DOMAIN updatesP : \A i \in LogOf({"deleteItem"}, {"maps"}) :
           log[i].arg.id # updatesP[k].webflowMap.item.id

\* a completed run that created, updated and deleted maps and deleted a tag
\* after updating another
C32_MutationsOfAllKinds ==
    /\ Done
    /\ \A m \in Mutations : LogOf({m}, {"maps"}) # {}
    /\ LogOf({"updateItem"}, {"tags"}) # {}
    /\ LogOf({"deleteItem"}, {"tags"}) # {}

\* C33 (as claimed): every call made to the destination, the reads of the
\* tag and terrain collections by getFieldCollection included, is handed to
\* the limiter.
C33_EveryCallThroughLimiter ==
    \A i \in DOMAIN log : log[i].via = "limiter"
====
